---- MODULE Spec2Model ----
(***************************************************************************)
(* A model of the OEI-MS backend's real-time core:                         *)
(*   - ConnectionManager / WebSocketService                                *)
(*       (src/backend/app/services/websocket_service.py)                   *)
(*   - MQTTService's connection state machine and its message pipeline     *)
(*       (src/backend/app/services/mqtt_service.py)                        *)
(*   - Sensor's alarm rules (src/backend/app/models/sensor.py)             *)
(*   - the legacy WebSocketManager and its endpoints                       *)
(*       (src/backend/app/core/websocket_manager.py,                       *)
(*        src/backend/app/api/v1/endpoints/websocket.py)                   *)
(*                                                                         *)
(* The services run on one asyncio event loop: a coroutine runs without    *)
(* interruption between two awaits that really suspend (accept,            *)
(* receive_text, send_text, gather, sleep).  Awaiting a coroutine that     *)
(* never suspends (_join_room, _associate_user, disconnect, change_room)   *)
(* does not yield.  One action of the model is one such uninterrupted run. *)
(***************************************************************************)
EXTENDS Integers, Sequences, FiniteSets, TLC

\* ------------------------------------------------------------------ bounds
NConn == 2          \* WebSocket objects the model creates
MaxDisc == 2        \* disconnect calls counted per connection (saturating)
MaxTasks == 2       \* _reconnect tasks alive at once
MaxSubTasks == 1    \* _subscribe_topics tasks waiting to run
MaxHandling == 2    \* frames of one connection counted as being handled

MaxMsgs == 2        \* frames received in the pipeline's specification
MaxWrites == 102    \* readings written in the cache's specification
MaxInFlight == 2    \* _process_message tasks alive at once
SequentialWrites == 99  \* readings of the cache's specification that arrive one at a time
MaxRules == 2       \* rules of a sensor in the alarm specification

\* ------------------------------------------------------- program constants
max_reconnect_attempts == 10
ltrim_stop == 99    \* ltrim(series_key, 0, 99)

Conns == 1..NConn
RoomNames == {"default", "r1"}
UserIds == {"u1", "u2"}
\* A value that is falsy in Python: None, or the empty string a query
\* parameter can carry.  The code only ever tests such a value with "if x".
None == "None"
HandshakeRooms == RoomNames \cup {None}
HandshakeUsers == UserIds \cup {None}

Falsy(x) == x = None

VARIABLES
    \* ---- ConnectionManager (websocket_service.py:17-31)
    active_connections,   \* WeakSet of WebSocket
    connection_info,      \* dict WebSocket -> {user_id, room}
    room_connections,     \* dict room -> WeakSet of WebSocket
    user_connections,     \* dict user -> WeakSet of WebSocket
    \* ---- one handle_connection coroutine per WebSocket
    pc,                   \* its position
    collected,            \* WebSocket objects already freed
    fan,                  \* the fan-out call in flight
    ndisc,                \* history: disconnect calls per connection
    handling,             \* history: frames received and not yet answered, per connection
    \* ---- MQTTService (mqtt_service.py:22-39)
    is_running,
    is_connected,
    reconnect_attempts,
    subscriptions,
    net,                  \* the client's network loop
    mpc,                  \* position of _message_loop
    rtask,                \* the _reconnect tasks created by _on_disconnect
    cpc,                  \* position of start() and its _connect call
    subtask,              \* _subscribe_topics tasks not yet run
    outage_attempts,      \* history: _reconnect tasks created since the last CONNACK 0
    \* ---- the message pipeline of MQTTService and the stores it writes
    stats,                \* stats: messages_received / _processed / _failed
    sensors,              \* table sensors, by device_id
    gateways,             \* table gateways, by device_id
    tsdb,                 \* the points written to InfluxDB
    cache_latest,         \* Redis sensor:{id}:latest
    cache_series,         \* Redis sensor:{id}:series
    events,               \* the messages handed to websocket_service.broadcast
    mtasks,               \* the _process_message tasks, in creation order
    \* ---- the legacy WebSocketManager (core/websocket_manager.py:13-15)
    l_active,             \* active_connections: dict client_id -> WebSocket
    l_entries,            \* the entries of active_connections in insertion order
    l_subs,               \* client_subscriptions: dict client_id -> set of sensor ids
    l_pc,                 \* position of the endpoint coroutine of each WebSocket
    l_id,                 \* the client_id of the path each WebSocket connected to
    l_bc                  \* the broadcast in flight

wsVars == <<active_connections, connection_info, room_connections,
            user_connections, pc, collected, fan, ndisc, handling>>
mqttVars == <<is_running, is_connected, reconnect_attempts, subscriptions,
              net, mpc, rtask, cpc, subtask, outage_attempts>>
pipeVars == <<stats, sensors, gateways, tsdb, cache_latest, cache_series,
              events, mtasks>>
legacyVars == <<l_active, l_entries, l_subs, l_pc, l_id, l_bc>>
vars == <<wsVars, mqttVars, pipeVars, legacyVars>>

\* ------------------------------------------------------- sequence helpers
Range(s) == {s[i] : i \in DOMAIN s}

\* list(S): the members of S in iteration order.  The sets hash their members
\* by identity, so the order is arbitrary but fixed while a set is unchanged;
\* the connections are numbered in that order.
HashOrder == [i \in 1..NConn |-> i]

ListOf(S) == SelectSeq(HashOrder, LAMBDA c : c \in S)

\* ------------------------------------------------------------ the registry
Reg == [active |-> active_connections, info |-> connection_info,
        rooms |-> room_connections, users |-> user_connections]

SetReg(r) ==
    /\ active_connections' = r.active
    /\ connection_info' = r.info
    /\ room_connections' = r.rooms
    /\ user_connections' = r.users

\* dict helpers: d[k] = v, del d[k]
Put(d, k, v) == [x \in DOMAIN d \cup {k} |-> IF x = k THEN v ELSE d[x]]
Del(d, k) == [x \in DOMAIN d \ {k} |-> d[x]]

\* info.get("room") / info.get("user_id") with info = connection_info.get(ws, {})
InfoRoom(r, ws) == IF ws \in DOMAIN r.info THEN r.info[ws].room ELSE None
InfoUser(r, ws) == IF ws \in DOMAIN r.info THEN r.info[ws].user_id ELSE None

\* discard ws from index[key]; delete the key when the set becomes empty
DiscardFrom(index, key, ws) ==
    IF ~Falsy(key) /\ key \in DOMAIN index
    THEN IF index[key] \ {ws} = {}
         THEN Del(index, key)
         ELSE Put(index, key, index[key] \ {ws})
    ELSE index

AddTo(index, key, ws) ==
    IF key \in DOMAIN index
    THEN Put(index, key, index[key] \cup {ws})
    ELSE Put(index, key, {ws})

join_room(r, ws, room) == [r EXCEPT !.rooms = AddTo(r.rooms, room, ws)]

associate_user(r, ws, user_id) == [r EXCEPT !.users = AddTo(r.users, user_id, ws)]

\* connect, after accept(): lines 38-61
register(r, ws, user_id, room) ==
    LET r1 == [r EXCEPT !.active = @ \cup {ws},
                        !.info = Put(@, ws, [user_id |-> user_id, room |-> room])]
        r2 == IF ~Falsy(room) THEN join_room(r1, ws, room) ELSE r1
    IN  IF ~Falsy(user_id) THEN associate_user(r2, ws, user_id) ELSE r2

\* disconnect reading the room as info.get("room", "default")
disconnect_default_room(r, ws) ==
    LET user_id == InfoUser(r, ws)
        room == IF ws \in DOMAIN r.info THEN r.info[ws].room ELSE "default"
    IN  [active |-> r.active \ {ws},
         rooms |-> DiscardFrom(r.rooms, room, ws),
         users |-> DiscardFrom(r.users, user_id, ws),
         info |-> IF ws \in DOMAIN r.info THEN Del(r.info, ws) ELSE r.info]

disconnect(r, ws) ==
    LET user_id == InfoUser(r, ws)
        room == InfoRoom(r, ws)
    IN  [active |-> r.active \ {ws},
         rooms |-> DiscardFrom(r.rooms, room, ws),
         users |-> DiscardFrom(r.users, user_id, ws),
         info |-> IF ws \in DOMAIN r.info THEN Del(r.info, ws) ELSE r.info]

\* change_room without the leave of the old room
change_room_keeps_old(r, ws, new_room) ==
    LET r2 == join_room(r, ws, new_room)
    IN  IF ws \in DOMAIN r2.info
        THEN [r2 EXCEPT !.info[ws].room = new_room]
        ELSE r2

change_room(r, ws, new_room) ==
    LET old_room == InfoRoom(r, ws)
        r1 == [r EXCEPT !.rooms = DiscardFrom(r.rooms, old_room, ws)]
        r2 == join_room(r1, ws, new_room)
    IN  IF ws \in DOMAIN r2.info
        THEN [r2 EXCEPT !.info[ws].room = new_room]
        ELSE r2

RECURSIVE DisconnectAll(_, _)
DisconnectAll(r, s) ==
    IF s = <<>> THEN r ELSE DisconnectAll(disconnect(r, Head(s)), Tail(s))

\* ---------------------------------------------------------------- history
Bump(n) == IF n < MaxDisc THEN n + 1 ELSE n
CountDisc(S) == ndisc' = [c \in Conns |-> IF c \in S THEN Bump(ndisc[c]) ELSE ndisc[c]]

\* websocket.client_state == WebSocketState.CONNECTED
ClientConnected(c) == pc[c] \in {"welcome", "recv", "reply"}

IdleFan == [phase |-> "idle", kind |-> "none", target |-> None, excl |-> {},
            tasks |-> <<>>, res |-> <<>>, snap |-> {}, scope |-> {},
            removed |-> {}, raised |-> FALSE, ret |-> None]


\* ------------------------------------------- WebSocketService.handle_connection
\* a connect that registers the connection and suspends before it starts
\* sending the welcome frame
Connect_registers_first(c, user_id, room) ==
    /\ fan.phase # "done"
    /\ pc[c] = "idle"
    /\ SetReg(register(Reg, c, user_id, room))
    /\ UNCHANGED <<pc, collected, fan, ndisc, handling, mqttVars,
                   pipeVars, legacyVars>>

\* manager.connect: accept() succeeded, the connection is registered and the
\* welcome frame is being sent.
Connect(c, user_id, room) ==
    /\ fan.phase # "done"
    /\ pc[c] = "idle"
    /\ SetReg(register(Reg, c, user_id, room))
    /\ pc' = [pc EXCEPT ![c] = "welcome"]
    /\ UNCHANGED <<collected, fan, ndisc, handling, mqttVars,
                   pipeVars, legacyVars>>

\* accept() raised: connect re-raises, handle_connection logs and runs its
\* finally clause.
AcceptFails(c) ==
    /\ fan.phase # "done"
    /\ pc[c] = "idle"
    /\ SetReg(disconnect(Reg, c))
    /\ CountDisc({c})
    /\ pc' = [pc EXCEPT ![c] = "done"]
    /\ UNCHANGED <<collected, fan, handling, mqttVars,
                   pipeVars, legacyVars>>

\* send_personal_message finished: the send_text either returned or raised;
\* on an exception the connection is disconnected and False is returned.
SendPersonalDone(c, from, ok) ==
    /\ fan.phase # "done"
    /\ pc[c] = from
    /\ pc' = [pc EXCEPT ![c] = "recv"]
    /\ IF ok
       THEN UNCHANGED <<active_connections, connection_info, room_connections,
                        user_connections, ndisc>>
       ELSE SetReg(disconnect(Reg, c)) /\ CountDisc({c})
    /\ handling' = [handling EXCEPT ![c] = IF from = "reply" THEN @ - 1 ELSE @]
    /\ UNCHANGED <<collected, fan, mqttVars, pipeVars, legacyVars>>

WelcomeDone(c, ok) == SendPersonalDone(c, "welcome", ok)

ReplyDone(c, ok) == SendPersonalDone(c, "reply", ok)

\* a loop that awaits receive_text while the reply to a frame is still being sent
AtReceive_while_replying(c) == pc[c] \in {"recv", "reply"}

\* the loop of handle_connection is at `await websocket.receive_text()`
AtReceive(c) == pc[c] = "recv"

\* {"type": "join_room", "room": room}: _handle_join_room with a room name
RecvJoinRoom(c, room) ==
    /\ fan.phase # "done"
    /\ AtReceive(c)
    /\ handling[c] < MaxHandling
    /\ SetReg(change_room(Reg, c, room))
    /\ pc' = [pc EXCEPT ![c] = "reply"]
    /\ handling' = [handling EXCEPT ![c] = @ + 1]
    /\ UNCHANGED <<collected, fan, ndisc, mqttVars, pipeVars, legacyVars>>

\* {"type": "leave_room"}: _handle_leave_room
RecvLeaveRoom(c) ==
    /\ fan.phase # "done"
    /\ AtReceive(c)
    /\ handling[c] < MaxHandling
    /\ SetReg(change_room(Reg, c, "default"))
    /\ pc' = [pc EXCEPT ![c] = "reply"]
    /\ handling' = [handling EXCEPT ![c] = @ + 1]
    /\ UNCHANGED <<collected, fan, ndisc, mqttVars, pipeVars, legacyVars>>

\* a loop that unregisters the connection whose frame it cannot handle
RecvOther_disconnects(c) ==
    /\ fan.phase # "done"
    /\ AtReceive(c)
    /\ handling[c] < MaxHandling
    /\ SetReg(disconnect(Reg, c))
    /\ pc' = [pc EXCEPT ![c] = "reply"]
    /\ handling' = [handling EXCEPT ![c] = @ + 1]
    /\ UNCHANGED <<collected, fan, ndisc, mqttVars, pipeVars, legacyVars>>

\* Every other frame is answered without touching the registry: ping, get_stats,
\* join_room without a room, invalid JSON, no type, a type without a handler.
RecvOther(c) ==
    /\ fan.phase # "done"
    /\ AtReceive(c)
    /\ handling[c] < MaxHandling
    /\ pc' = [pc EXCEPT ![c] = "reply"]
    /\ handling' = [handling EXCEPT ![c] = @ + 1]
    /\ UNCHANGED <<active_connections, connection_info, room_connections,
                   user_connections, collected, fan, ndisc, mqttVars, pipeVars, legacyVars>>

\* receive_text raised WebSocketDisconnect: break, then finally: disconnect
RecvDisconnect(c) ==
    /\ fan.phase # "done"
    /\ AtReceive(c)
    /\ SetReg(disconnect(Reg, c))
    /\ CountDisc({c})
    /\ pc' = [pc EXCEPT ![c] = "done"]
    /\ UNCHANGED <<collected, fan, handling, mqttVars,
                   pipeVars, legacyVars>>

\* ----------------------------------------------------------- weak references
\* A WebSocket object is referenced by its handler's frame, by connection_info
\* (a dict key), by a send coroutine that has not finished, and by the
\* traceback of the exception a send raised.  Everything else holds it weakly.
Referenced(c) ==
    \/ pc[c] # "done"
    \/ c \in DOMAIN connection_info
    \/ /\ fan.phase = "sending"
       /\ \/ c \in fan.excl
          \/ \E i \in DOMAIN fan.tasks :
                fan.tasks[i] = c /\ fan.res[i] \in {"pending", "fail"}

\* The object is freed: every WeakSet drops it (the dict keys stay).
Collect(c) ==
    /\ fan.phase # "done"
    /\ c \notin collected
    /\ ~Referenced(c)
    /\ collected' = collected \cup {c}
    /\ active_connections' = active_connections \ {c}
    /\ room_connections' = [r \in DOMAIN room_connections |-> room_connections[r] \ {c}]
    /\ user_connections' = [u \in DOMAIN user_connections |-> user_connections[u] \ {c}]
    /\ fan' = [fan EXCEPT !.snap = @ \ {c}]
    /\ UNCHANGED <<connection_info, pc, ndisc, handling, mqttVars,
                   pipeVars, legacyVars>>


\* ------------------------------------------------------------------ fan-out
\* The recipients each call computes before it awaits gather.
\* broadcast without the "not in exclude" test
BroadcastTargets_all(excl) == ListOf(active_connections)

BroadcastTargets(excl) == ListOf(active_connections \ excl)

\* the room's set taken without subtracting exclude
RoomSnapshot_all(room, excl) == room_connections[room]

RoomSnapshot(room, excl) == room_connections[room] \ excl

UserSnapshot(user_id) == user_connections[user_id]

Pending(tasks) == [i \in DOMAIN tasks |-> "pending"]

\* A call that returns before gather: nothing is sent.
Returned(kind, target, excl, scope, ret) ==
    [IdleFan EXCEPT !.phase = "done", !.kind = kind, !.target = target,
                    !.excl = excl, !.scope = scope, !.ret = ret]

Gathering(kind, target, excl, scope, snap, tasks) ==
    [IdleFan EXCEPT !.phase = "sending", !.kind = kind, !.target = target,
                    !.excl = excl, !.scope = scope, !.snap = snap,
                    !.tasks = tasks, !.res = Pending(tasks)]

\* broadcast(message, exclude), up to the await of gather (lines 137-151)
Broadcast(excl) ==
    /\ fan.phase = "idle"
    /\ fan' = IF active_connections = {} \/ BroadcastTargets(excl) = <<>>
              THEN Returned("broadcast", None, excl, active_connections, None)
              ELSE Gathering("broadcast", None, excl, active_connections, {},
                             BroadcastTargets(excl))
    /\ UNCHANGED <<active_connections, connection_info, room_connections,
                   user_connections, pc, collected, ndisc, handling, mqttVars,
                   pipeVars, legacyVars>>

\* broadcast_to_room(room, message, exclude), up to gather (lines 167-182)
BroadcastToRoom(room, excl) ==
    /\ fan.phase = "idle"
    /\ fan' = IF room \notin DOMAIN room_connections
              THEN Returned("room", room, excl, {}, None)
              ELSE IF RoomSnapshot(room, excl) = {}
              THEN Returned("room", room, excl, room_connections[room], None)
              ELSE Gathering("room", room, excl, room_connections[room],
                             RoomSnapshot(room, excl),
                             ListOf(RoomSnapshot(room, excl)))
    /\ UNCHANGED <<active_connections, connection_info, room_connections,
                   user_connections, pc, collected, ndisc, handling, mqttVars,
                   pipeVars, legacyVars>>

\* gather of no coroutine returns at once: the results are processed in the
\* same run (success_count = 0, nothing failed).
SendToUser(user_id) ==
    /\ fan.phase = "idle"
    /\ fan' = IF user_id \notin DOMAIN user_connections
              THEN Returned("user", user_id, {}, {}, "False")
              ELSE IF UserSnapshot(user_id) = {}
              THEN Returned("user", user_id, {}, {}, "False")
              ELSE Gathering("user", user_id, {}, user_connections[user_id],
                             UserSnapshot(user_id), ListOf(UserSnapshot(user_id)))
    /\ UNCHANGED <<active_connections, connection_info, room_connections,
                   user_connections, pc, collected, ndisc, handling, mqttVars,
                   pipeVars, legacyVars>>

\* _send_with_error_handling for the i-th recipient runs to its end: False
\* when the client is no longer connected, else the send returns or raises.
SendResult(c, sent) ==
    IF ~ClientConnected(c) THEN "skip" ELSE IF sent THEN "ok" ELSE "fail"

\* sends awaited one after the other, in the order of the task list
SendStep_in_order(i, sent) ==
    /\ fan.phase = "sending"
    /\ i \in DOMAIN fan.tasks
    /\ fan.res[i] = "pending"
    /\ \A j \in 1..(i - 1) : fan.res[j] # "pending"
    /\ fan' = [fan EXCEPT !.res[i] = SendResult(fan.tasks[i], sent)]
    /\ UNCHANGED <<active_connections, connection_info, room_connections,
                   user_connections, pc, collected, ndisc, handling, mqttVars,
                   pipeVars, legacyVars>>

SendStep(i, sent) ==
    /\ fan.phase = "sending"
    /\ i \in DOMAIN fan.tasks
    /\ fan.res[i] = "pending"
    /\ fan' = [fan EXCEPT !.res[i] = SendResult(fan.tasks[i], sent)]
    /\ UNCHANGED <<active_connections, connection_info, room_connections,
                   user_connections, pc, collected, ndisc, handling, mqttVars,
                   pipeVars, legacyVars>>

\* After gather: the loops over the results and the cleanup.
FailIdx == {i \in DOMAIN fan.res : fan.res[i] = "fail"}

\* the list each call indexes with the position of a result
IndexedList ==
    IF fan.kind = "broadcast" THEN ListOf(active_connections) ELSE ListOf(fan.snap)

\* the positions the loop indexes before it would add to failed_connections
IndexedPositions == IF fan.kind = "broadcast" THEN FailIdx ELSE DOMAIN fan.res

\* list(...)[i] raises IndexError
RaisesIndexError == \E i \in IndexedPositions : i > Len(IndexedList)

FailedConnections == {IndexedList[i] : i \in FailIdx}

SuccessCount == Cardinality({i \in DOMAIN fan.res : fan.res[i] = "ok"})

FanFinish ==
    /\ fan.phase = "sending"
    /\ \A i \in DOMAIN fan.res : fan.res[i] # "pending"
    /\ IF RaisesIndexError
       THEN /\ fan' = [fan EXCEPT !.phase = "done", !.raised = TRUE]
            /\ UNCHANGED <<active_connections, connection_info, room_connections,
                           user_connections, ndisc>>
       ELSE /\ SetReg(DisconnectAll(Reg, ListOf(FailedConnections)))
            /\ CountDisc(FailedConnections)
            /\ fan' = [fan EXCEPT
                         !.phase = "done",
                         !.removed = FailedConnections \cap DOMAIN connection_info,
                         !.ret = IF fan.kind # "user" THEN None
                                 ELSE IF SuccessCount > 0 THEN "True" ELSE "False"]
    /\ UNCHANGED <<pc, collected, handling, mqttVars,
                   pipeVars, legacyVars>>

\* The call returns to its caller.  FanFinish and FanReturn are one
\* uninterrupted run of the coroutine (no await lies between the end of gather
\* and the return); the state between them is where the call's outcome is read.
FanReturn ==
    /\ fan.phase = "done"
    /\ fan' = IdleFan
    /\ UNCHANGED <<active_connections, connection_info, room_connections,
                   user_connections, pc, collected, ndisc, handling, mqttVars,
                   pipeVars, legacyVars>>

\* ================================================================ MQTTService
Topics == {"sensors/+/data", "sensors/+/status", "gateways/+/heartbeat",
           "gateways/+/status", "system/+/alert"}

\* net, the network loop of the client (loop_start): "stopped", "trying" (no
\* socket; it reconnects by itself, reconnect_delay_set), "handshake" (socket
\* open, CONNACK awaited), "up" (CONNACK 0 received).
NoTasks == [sleeping |-> 0, connecting |-> 0]

\* connect_async + loop_start (lines 110-120): the network loop runs and
\* connects; an established session is left as it is.
ConnectAsync(n) == IF n = "stopped" THEN "trying" ELSE n

\* start(): lines 43-52, up to the wait inside _connect
Start ==
    /\ ~is_running
    /\ cpc = "none"
    /\ is_running' = TRUE
    /\ net' = ConnectAsync(net)
    /\ cpc' = "waiting"
    /\ UNCHANGED <<is_connected, reconnect_attempts, subscriptions, mpc, rtask,
                   subtask, outage_attempts, wsVars, pipeVars, legacyVars>>

\* start()'s _connect saw is_connected: the counter is reset, the monitor task
\* is created (lines 128-131, 55).
StartConnected ==
    /\ cpc = "waiting"
    /\ is_connected
    /\ reconnect_attempts' = 0
    /\ cpc' = "started"
    /\ mpc' = "sleep"
    /\ UNCHANGED <<is_running, is_connected, subscriptions, net, rtask, subtask,
                   outage_attempts, wsVars, pipeVars, legacyVars>>

\* start()'s _connect timed out: start resets is_running and re-raises
\* (lines 128-129, 58-61).  The network loop is left running.
StartTimeout ==
    /\ cpc = "waiting"
    /\ ~is_connected
    /\ is_running' = FALSE
    /\ cpc' = "failed"
    /\ UNCHANGED <<is_connected, reconnect_attempts, subscriptions, net, mpc,
                   rtask, subtask, outage_attempts, wsVars, pipeVars, legacyVars>>

\* the network loop opened a socket to the broker
NetSocketOpen ==
    /\ net = "trying"
    /\ net' = "handshake"
    /\ UNCHANGED <<is_running, is_connected, reconnect_attempts, subscriptions,
                   mpc, rtask, cpc, subtask, outage_attempts, wsVars, pipeVars, legacyVars>>

\* _on_connect(rc): lines 137-157
OnConnect(rc) ==
    /\ net = "handshake"
    /\ IF rc = 0
       THEN /\ subtask < MaxSubTasks
            /\ is_connected' = TRUE
            /\ subtask' = subtask + 1
            /\ net' = "up"
            /\ outage_attempts' = 0
       ELSE /\ is_connected' = FALSE
            /\ UNCHANGED <<subtask, net, outage_attempts>>
    /\ UNCHANGED <<is_running, reconnect_attempts, subscriptions, mpc, rtask,
                   cpc, wsVars, pipeVars, legacyVars>>

\* _subscribe_topics: lines 207-227.  subscribe() succeeds on a connected
\* client; otherwise its error code is only logged.
SubscribeTopics ==
    /\ subtask > 0
    /\ subtask' = subtask - 1
    /\ subscriptions' = IF net = "up" THEN Topics ELSE subscriptions
    /\ UNCHANGED <<is_running, is_connected, reconnect_attempts, net, mpc,
                   rtask, cpc, outage_attempts, wsVars, pipeVars, legacyVars>>

\* _on_disconnect(rc) with rc # 0: lines 159-172.  The socket was lost; the
\* broker forgets the session's subscriptions.
OnDisconnect ==
    /\ net \in {"handshake", "up"}
    /\ net' = "trying"
    /\ subscriptions' = {}
    /\ is_connected' = FALSE
    /\ IF is_running /\ reconnect_attempts < max_reconnect_attempts
       THEN /\ rtask.sleeping + rtask.connecting < MaxTasks
            /\ reconnect_attempts' = reconnect_attempts + 1
            /\ rtask' = [rtask EXCEPT !.sleeping = @ + 1]
            /\ outage_attempts' = outage_attempts + 1
       ELSE UNCHANGED <<reconnect_attempts, rtask, outage_attempts>>
    /\ UNCHANGED <<is_running, mpc, cpc, subtask, wsVars, pipeVars, legacyVars>>

\* _reconnect, after its sleep (lines 178-182), run as a task
ReconnectTaskWake ==
    /\ rtask.sleeping > 0
    /\ IF is_running /\ ~is_connected
       THEN /\ rtask' = [sleeping |-> rtask.sleeping - 1,
                         connecting |-> rtask.connecting + 1]
            /\ net' = ConnectAsync(net)
       ELSE /\ rtask' = [rtask EXCEPT !.sleeping = @ - 1]
            /\ UNCHANGED net
    /\ UNCHANGED <<is_running, is_connected, reconnect_attempts, subscriptions,
                   mpc, cpc, subtask, outage_attempts, wsVars, pipeVars, legacyVars>>

\* the task's _connect ends: is_connected was seen (counter reset), or the
\* wait timed out and _reconnect logs the exception
ReconnectTaskConnected ==
    /\ rtask.connecting > 0
    /\ is_connected
    /\ reconnect_attempts' = 0
    /\ rtask' = [rtask EXCEPT !.connecting = @ - 1]
    /\ UNCHANGED <<is_running, is_connected, subscriptions, net, mpc, cpc,
                   subtask, outage_attempts, wsVars, pipeVars, legacyVars>>

ReconnectTaskTimeout ==
    /\ rtask.connecting > 0
    /\ ~is_connected
    /\ rtask' = [rtask EXCEPT !.connecting = @ - 1]
    /\ UNCHANGED <<is_running, is_connected, reconnect_attempts, subscriptions,
                   net, mpc, cpc, subtask, outage_attempts, wsVars, pipeVars, legacyVars>>

\* _message_loop: lines 508-521.  After sleep(1).
MessageLoopTick ==
    /\ mpc = "sleep"
    /\ mpc' = IF ~is_running THEN "exited"
              ELSE IF ~is_connected THEN "reconnect_sleep"
              ELSE "sleep"
    /\ UNCHANGED <<is_running, is_connected, reconnect_attempts, subscriptions,
                   net, rtask, cpc, subtask, outage_attempts, wsVars, pipeVars, legacyVars>>

\* the _reconnect the loop awaits, after its sleep
MessageLoopWake ==
    /\ mpc = "reconnect_sleep"
    /\ IF is_running /\ ~is_connected
       THEN mpc' = "connecting" /\ net' = ConnectAsync(net)
       ELSE mpc' = "sleep" /\ UNCHANGED net
    /\ UNCHANGED <<is_running, is_connected, reconnect_attempts, subscriptions,
                   rtask, cpc, subtask, outage_attempts, wsVars, pipeVars, legacyVars>>

MessageLoopConnected ==
    /\ mpc = "connecting"
    /\ is_connected
    /\ reconnect_attempts' = 0
    /\ mpc' = "sleep"
    /\ UNCHANGED <<is_running, is_connected, subscriptions, net, rtask, cpc,
                   subtask, outage_attempts, wsVars, pipeVars, legacyVars>>

MessageLoopTimeout ==
    /\ mpc = "connecting"
    /\ ~is_connected
    /\ mpc' = "sleep"
    /\ UNCHANGED <<is_running, is_connected, reconnect_attempts, subscriptions,
                   net, rtask, cpc, subtask, outage_attempts, wsVars, pipeVars, legacyVars>>

\* stop(): lines 63-79.  A connected client is disconnected (which runs
\* _on_disconnect(0)) and its loop stopped; otherwise the loop is left alone.
Stop ==
    /\ is_running
    /\ is_running' = FALSE
    /\ is_connected' = FALSE
    /\ net' = IF is_connected THEN "stopped" ELSE net
    /\ subscriptions' = IF is_connected THEN {} ELSE subscriptions
    /\ UNCHANGED <<reconnect_attempts, mpc, rtask, cpc, subtask, outage_attempts,
                   wsVars, pipeVars, legacyVars>>

\* ===================================================== the message pipeline
\* _on_message hands every frame to a task running _process_message.  The
\* tasks share one event loop: a task runs alone from one suspending await to
\* the next.  In _handle_sensor_data the database session and the InfluxDB
\* write API are synchronous, the Redis commands suspend, and the broadcasts
\* go to the WebSocketService that MQTTService constructs for itself
\* (mqtt_service.py:27), whose manager has no connection and returns at once.
\* The callbacks are taken to run where the event loop runs, so that
\* asyncio.create_task succeeds; the hand-off specification takes the thread
\* that runs _on_message as an input instead, loop_start (mqtt_service.py:120)
\* running the callbacks in the client's network thread.

\* A topic is the sequence of its tokens, "/" being a token of its own: the
\* topic sensors/d1/database is <<"sensors", "/", "d1", "/", "data", "base">>.
T_data == <<"sensors", "/", "d1", "/", "data">>
T_data_dx == <<"sensors", "/", "dx", "/", "data">>
T_status == <<"sensors", "/", "d1", "/", "status">>
T_status_of_data == <<"sensors", "/", "data", "/", "status">>
T_gw_status == <<"gateways", "/", "g1", "/", "status">>
T_heartbeat == <<"gateways", "/", "g1", "/", "heartbeat">>
T_heartbeat_gx == <<"gateways", "/", "gx", "/", "heartbeat">>
T_alert == <<"system", "/", "s1", "/", "alert">>
T_config == <<"sensors", "/", "d1", "/", "config">>
T_database == <<"sensors", "/", "d1", "/", "data", "base">>
T_status_dx == <<"sensors", "/", "dx", "/", "status">>
T_gw_status_gx == <<"gateways", "/", "gx", "/", "status">>

TopicSet == {T_data, T_data_dx, T_status, T_status_of_data, T_gw_status,
             T_heartbeat, T_heartbeat_gx, T_alert, T_config, T_database}

\* A payload: bytes that json.loads rejects, or a JSON object with or without
\* a "value", which is a JSON number ({"value": 40}) or a JSON string holding
\* the digits of one ({"value": "40"}); a status payload is a JSON object
\* with a "status" and an "error" that is absent (None), "" or a text.
BadJson == [json |-> FALSE, has_value |-> FALSE, value |-> 0, numeric |-> FALSE,
            has_status |-> FALSE, status |-> None, error |-> None]
NoValue == [json |-> TRUE, has_value |-> FALSE, value |-> 0, numeric |-> FALSE,
            has_status |-> FALSE, status |-> None, error |-> None]
WithValue(v) == [json |-> TRUE, has_value |-> TRUE, value |-> v, numeric |-> TRUE,
                 has_status |-> FALSE, status |-> None, error |-> None]
WithText(v) == [json |-> TRUE, has_value |-> TRUE, value |-> v, numeric |-> FALSE,
                has_status |-> FALSE, status |-> None, error |-> None]
WithStatus(status, error) ==
    [json |-> TRUE, has_value |-> FALSE, value |-> 0, numeric |-> FALSE,
     has_status |-> TRUE, status |-> status, error |-> error]

\* data.get('status', 'unknown')
StatusOf(payload) == IF payload.has_status THEN payload.status ELSE "unknown"

\* `if error_message:`
Truthy(x) == x \notin {None, ""}

\* isinstance(value, (int, float))
IsNumber(payload) == payload.numeric

Values == {30, 40}
PayloadSet == {BadJson, NoValue, WithText(40)} \cup {WithValue(v) : v \in Values}

\* pattern in topic (str.__contains__)
Contains(topic, pattern) ==
    \E i \in 1..Len(topic) :
        /\ i + Len(pattern) - 1 <= Len(topic)
        /\ SubSeq(topic, i, i + Len(pattern) - 1) = pattern

\* topic.split('/')
RECURSIVE Split(_)
Split(topic) ==
    IF \A i \in DOMAIN topic : topic[i] # "/"
    THEN <<topic>>
    ELSE LET k == CHOOSE i \in DOMAIN topic :
                      topic[i] = "/" /\ \A j \in 1..(i - 1) : topic[j] # "/"
         IN  <<SubSeq(topic, 1, k - 1)>> \o Split(SubSeq(topic, k + 1, Len(topic)))

\* the if/elif chain of _process_message (lines 239-248)
Classify(topic) ==
    IF Contains(topic, <<"/", "data">>) THEN "data"
    ELSE IF Contains(topic, <<"/", "status">>) THEN "status"
    ELSE IF Contains(topic, <<"/", "heartbeat">>) THEN "heartbeat"
    ELSE IF Contains(topic, <<"/", "alert">>) THEN "alert"
    ELSE "unknown"

\* topic.split('/')[1]
DeviceId(topic) == Split(topic)[2]

\* ------------------------------------------------------ Sensor (sensor.py)
\* str(value)
Str(value) == <<"str", value>>

NoStr == <<"str">>

\* the field "value" of a point: float(value) for a number, else str(value)
FieldValue(payload) == IF IsNumber(payload) THEN payload.value ELSE Str(payload.value)

\* the comparisons with ">" taken as ">="
Triggered_not_strict(condition, value, threshold) ==
    \/ condition = ">" /\ value >= threshold
    \/ condition = "<" /\ value < threshold
    \/ condition = ">=" /\ value >= threshold
    \/ condition = "<=" /\ value <= threshold
    \/ condition = "==" /\ value = threshold
    \/ condition = "!=" /\ value # threshold

\* the comparisons of check_alarm_conditions (lines 252-263)
Triggered(condition, value, threshold) ==
    \/ condition = ">" /\ value > threshold
    \/ condition = "<" /\ value < threshold
    \/ condition = ">=" /\ value >= threshold
    \/ condition = "<=" /\ value <= threshold
    \/ condition = "==" /\ value = threshold
    \/ condition = "!=" /\ value # threshold

Alarm(rule, value) ==
    [rule_name |-> rule.name, severity |-> rule.severity, value |-> value,
     threshold |-> rule.threshold]

\* the loop over the rules (lines 242-275)
RECURSIVE AlarmsOf(_, _)
\* a loop that returns at the first triggered rule
AlarmsOf_first(rules, value) ==
    IF rules = <<>> THEN <<>>
    ELSE LET rule == Head(rules)
         IN  IF rule.enabled /\ Triggered(rule.condition, value, rule.threshold)
             THEN <<Alarm(rule, value)>>
             ELSE AlarmsOf(Tail(rules), value)

AlarmsOf(rules, value) ==
    IF rules = <<>> THEN <<>>
    ELSE LET rule == Head(rules)
             rest == AlarmsOf(Tail(rules), value)
         IN  IF rule.enabled /\ Triggered(rule.condition, value, rule.threshold)
             THEN <<Alarm(rule, value)>> \o rest
             ELSE rest

check_alarm_conditions(sensor, value) ==
    IF ~sensor.alarm_enabled \/ sensor.alarm_rules = <<>>
    THEN <<>>
    ELSE AlarmsOf(sensor.alarm_rules, value)

\* update_data_stats without the increment of the counter
update_data_stats_no_count(sensor, value, now) ==
    [sensor EXCEPT !.last_data_time = now, !.last_value = Str(value)]

update_data_stats(sensor, value, now) ==
    [sensor EXCEPT !.data_points_count = @ + 1,
                   !.last_data_time = now,
                   !.last_value = Str(value)]

\* Sensor.update_status(status, error_message): sensor.py 106-114
update_status(row, status, error_message) ==
    IF Truthy(error_message)
    THEN [row EXCEPT !.status = status, !.error_count = @ + 1,
                     !.last_error = error_message]
    ELSE [row EXCEPT !.status = status]

\* Gateway.update_status(status): gateway.py 97-102
gateway_update_status(row, status, now) ==
    IF status = "online"
    THEN [row EXCEPT !.status = status, !.last_seen = now]
    ELSE [row EXCEPT !.status = status]

Rule(name, condition, threshold, severity, enabled) ==
    [name |-> name, condition |-> condition, threshold |-> threshold,
     severity |-> severity, enabled |-> enabled]

\* the rules of sensor d1: two enabled rules and a disabled one
RulesD1 == <<Rule("high", ">", 35, "warning", TRUE),
             Rule("very_high", ">=", 40, "critical", TRUE),
             Rule("muted", "<", 100, "info", FALSE)>>

SensorRow(enabled, rules) ==
    [status |-> "offline", last_value |-> NoStr, last_data_time |-> 0,
     data_points_count |-> 0, error_count |-> 0, last_error |-> None,
     alarm_enabled |-> enabled, alarm_rules |-> rules]

GatewayRow == [status |-> "offline", last_seen |-> 0]

D1 == <<"d1">>
G1 == <<"g1">>

\* ------------------------------------------------------------------- tasks
NewTask(msg, topic, payload) ==
    [pc |-> "start", msg |-> msg, topic |-> topic, payload |-> payload,
     handler |-> "none", device |-> <<>>, db |-> 0, ts |-> 0, cache |-> 0,
     failed |-> {}, outcome |-> "none"]

InFlight == Cardinality({t \in DOMAIN mtasks : mtasks[t].pc # "done"})

\* the dict handed to websocket_service.broadcast
Event(type, tk, alarm) ==
    [type |-> type, msg |-> tk.msg, device |-> tk.device,
     value |-> IF type \in {"sensor_data", "alarm"} THEN tk.payload.value ELSE 0,
     rule_name |-> alarm.rule_name, severity |-> alarm.severity,
     threshold |-> alarm.threshold]

NoAlarm == [rule_name |-> "", severity |-> "", value |-> 0, threshold |-> 0]

\* _on_message: lines 186-197
OnMessage(topic, payload, cap) ==
    /\ stats.messages_received < cap
    /\ InFlight < MaxInFlight
    /\ stats' = [stats EXCEPT !.messages_received = @ + 1]
    /\ mtasks' = Append(mtasks, NewTask(stats.messages_received + 1, topic, payload))
    /\ UNCHANGED <<sensors, gateways, tsdb, cache_latest, cache_series, events,
                   wsVars, mqttVars, legacyVars>>

\* _on_message run by the thread that loop_start creates (line 120), which has
\* no running event loop: asyncio.create_task raises RuntimeError, the
\* coroutine is never scheduled and the except clause counts the frame as
\* failed (lines 193-197).
OnMessageInNetworkThread(topic, payload, cap) ==
    /\ stats.messages_received < cap
    /\ stats' = [stats EXCEPT !.messages_received = @ + 1,
                              !.messages_failed = @ + 1]
    /\ UNCHANGED <<sensors, gateways, tsdb, cache_latest, cache_series, events,
                   mtasks, wsVars, mqttVars, legacyVars>>

\* What a handler did to the stores before it returned or suspended.
Outcome(tk, s, g, db, evs, suspended) ==
    [task |-> tk, sensors |-> s, gateways |-> g, tsdb |-> db, evs |-> evs,
     suspended |-> suspended]

Nothing(tk) == Outcome(tk, sensors, gateways, tsdb, <<>>, FALSE)

\* _handle_sensor_data with a failed InfluxDB write ending the handler
handle_sensor_data_ts_aborts(tk, db_ok, ts_ok) ==
    LET device_id == DeviceId(tk.topic)
        t1 == [tk EXCEPT !.device = device_id]
    IN  IF device_id \notin DOMAIN sensors THEN Nothing(t1)
        ELSE IF ~tk.payload.has_value THEN Nothing(t1)
        ELSE IF ~db_ok THEN Nothing([t1 EXCEPT !.failed = {"db"}])
        ELSE LET row == [update_data_stats(sensors[device_id], tk.payload.value, tk.msg)
                            EXCEPT !.status = "online"]
                 point == [device |-> device_id, value |-> FieldValue(tk.payload),
                           time |-> tk.msg]
             IN  Outcome([t1 EXCEPT !.db = 1, !.ts = IF ts_ok THEN 1 ELSE 0,
                                    !.failed = IF ts_ok THEN {} ELSE {"ts"}],
                         [sensors EXCEPT ![device_id] = row], gateways,
                         IF ts_ok THEN Append(tsdb, point) ELSE tsdb,
                         <<>>, ts_ok)

\* _handle_sensor_data up to the first Redis command: lines 259-306.
\* db_ok: db.commit() returns; ts_ok: write_api.write() returns.
handle_sensor_data(tk, db_ok, ts_ok) ==
    LET device_id == DeviceId(tk.topic)
        t1 == [tk EXCEPT !.device = device_id]
    IN  IF device_id \notin DOMAIN sensors THEN Nothing(t1)
        ELSE IF ~tk.payload.has_value THEN Nothing(t1)
        ELSE IF ~db_ok THEN Nothing([t1 EXCEPT !.failed = {"db"}])
        ELSE LET row == [update_data_stats(sensors[device_id], tk.payload.value, tk.msg)
                            EXCEPT !.status = "online"]
                 point == [device |-> device_id, value |-> FieldValue(tk.payload),
                           time |-> tk.msg]
             IN  Outcome([t1 EXCEPT !.db = 1, !.ts = IF ts_ok THEN 1 ELSE 0,
                                    !.failed = IF ts_ok THEN {} ELSE {"ts"}],
                         [sensors EXCEPT ![device_id] = row], gateways,
                         IF ts_ok THEN Append(tsdb, point) ELSE tsdb,
                         <<>>, TRUE)

\* _handle_status_message: lines 325-371
handle_status_message(tk, db_ok) ==
    LET device_id == DeviceId(tk.topic)
        status == StatusOf(tk.payload)
        t1 == [tk EXCEPT !.device = device_id]
    IN  IF Contains(tk.topic, <<"sensors">>)
        THEN IF device_id \in DOMAIN sensors
             THEN IF db_ok
                  THEN Outcome([t1 EXCEPT !.db = 1],
                               [sensors EXCEPT ![device_id] =
                                    update_status(@, status, tk.payload.error)],
                               gateways, tsdb,
                               <<Event("sensor_status", t1, NoAlarm)>>, FALSE)
                  ELSE Nothing([t1 EXCEPT !.failed = {"db"}])
             ELSE Nothing(t1)
        ELSE IF Contains(tk.topic, <<"gateways">>)
        THEN IF device_id \in DOMAIN gateways
             THEN IF db_ok
                  THEN Outcome([t1 EXCEPT !.db = 1], sensors,
                               [gateways EXCEPT ![device_id] =
                                    gateway_update_status(@, status, tk.msg)],
                               tsdb, <<Event("gateway_status", t1, NoAlarm)>>, FALSE)
                  ELSE Nothing([t1 EXCEPT !.failed = {"db"}])
             ELSE Nothing(t1)
        ELSE Nothing(t1)

\* a heartbeat handler that inserts the gateway it does not find
handle_heartbeat_upsert(tk, db_ok) ==
    LET device_id == DeviceId(tk.topic)
        t1 == [tk EXCEPT !.device = device_id]
    IN  IF db_ok
        THEN Outcome([t1 EXCEPT !.db = 1], sensors,
                     Put(gateways, device_id,
                         [status |-> "online", last_seen |-> tk.msg]),
                     tsdb, <<>>, FALSE)
        ELSE Nothing([t1 EXCEPT !.failed = {"db"}])

\* _handle_heartbeat: lines 373-399
handle_heartbeat(tk, db_ok) ==
    LET device_id == DeviceId(tk.topic)
        t1 == [tk EXCEPT !.device = device_id]
    IN  IF device_id \in DOMAIN gateways
        THEN IF db_ok
             THEN Outcome([t1 EXCEPT !.db = 1], sensors,
                          [gateways EXCEPT ![device_id] =
                               [status |-> "online", last_seen |-> tk.msg]],
                          tsdb, <<>>, FALSE)
             ELSE Nothing([t1 EXCEPT !.failed = {"db"}])
        ELSE Nothing(t1)

\* _handle_alert: lines 401-414
handle_alert(tk) ==
    Outcome(tk, sensors, gateways, tsdb, <<Event("alert", tk, NoAlarm)>>, FALSE)

\* the dispatch of _process_message: lines 239-248
Dispatch(tk, db_ok, ts_ok) ==
    LET t1 == [tk EXCEPT !.handler = Classify(tk.topic)]
    IN  CASE t1.handler = "data" -> handle_sensor_data(t1, db_ok, ts_ok)
          [] t1.handler = "status" -> handle_status_message(t1, db_ok)
          [] t1.handler = "heartbeat" -> handle_heartbeat(t1, db_ok)
          [] t1.handler = "alert" -> handle_alert(t1)
          [] OTHER -> Nothing(t1)

\* The tasks start in the order of their creation (the loop's ready queue).
NextToStart(t) ==
    /\ t \in DOMAIN mtasks
    /\ mtasks[t].pc = "start"
    /\ \A u \in 1..(t - 1) : mtasks[u].pc # "start"

\* _process_message from its start to the first suspension or to its end:
\* lines 229-257
ProcessMessage(t, db_ok, ts_ok) ==
    /\ NextToStart(t)
    /\ IF ~mtasks[t].payload.json
       THEN /\ stats' = [stats EXCEPT !.messages_failed = @ + 1]
            /\ mtasks' = [mtasks EXCEPT ![t].pc = "done", ![t].outcome = "failed"]
            /\ UNCHANGED <<sensors, gateways, tsdb, events>>
       ELSE LET o == Dispatch(mtasks[t], db_ok, ts_ok)
            IN  /\ sensors' = o.sensors
                /\ gateways' = o.gateways
                /\ tsdb' = o.tsdb
                /\ events' = events \o o.evs
                /\ IF o.suspended
                   THEN /\ mtasks' = [mtasks EXCEPT ![t] = [o.task EXCEPT !.pc = "setex"]]
                        /\ UNCHANGED stats
                   ELSE /\ mtasks' = [mtasks EXCEPT ![t] = [o.task EXCEPT
                                        !.pc = "done", !.outcome = "processed"]]
                        /\ stats' = [stats EXCEPT !.messages_processed = @ + 1]
    /\ UNCHANGED <<cache_latest, cache_series, wsVars, mqttVars, legacyVars>>

\* ---------------------------------------------- _cache_sensor_data: 447-474
CacheData(tk) == [value |-> tk.payload.value, timestamp |-> tk.msg]

\* LPUSH key x
Lpush(list, x) == <<x>> \o list

\* LTRIM key start stop
Ltrim(list, start, stop) ==
    SubSeq(list, start + 1, IF stop + 1 < Len(list) THEN stop + 1 ELSE Len(list))

\* _handle_alarms for the alarms of the value, then _broadcast_sensor_data:
\* lines 308-315
AlarmEvents(tk) ==
    LET alarms == IF IsNumber(tk.payload)
                  THEN check_alarm_conditions(sensors[tk.device], tk.payload.value)
                  ELSE <<>>
    IN  [i \in DOMAIN alarms |-> Event("alarm", tk, alarms[i])]

\* a handler that broadcasts the reading before its alarms
TailEvents_data_first(tk) == <<Event("sensor_data", tk, NoAlarm)>> \o AlarmEvents(tk)

TailEvents(tk) == AlarmEvents(tk) \o <<Event("sensor_data", tk, NoAlarm)>>

\* a _process_message that counts only the frames that never suspended
Finish_no_count(t) ==
    /\ events' = events \o TailEvents(mtasks[t])
    /\ UNCHANGED stats

\* the rest of _handle_sensor_data and of _process_message after the cache
Finish(t) ==
    /\ events' = events \o TailEvents(mtasks[t])
    /\ stats' = [stats EXCEPT !.messages_processed = @ + 1]

\* One Redis command of task t returns (ok) or raises: the except clause of
\* _cache_sensor_data ends the refresh and the handler goes on.
CacheStep(t, at, ok, next) ==
    /\ t \in DOMAIN mtasks
    /\ mtasks[t].pc = at
    /\ IF ok /\ next # "done"
       THEN /\ mtasks' = [mtasks EXCEPT ![t].pc = next, ![t].cache = @ + 1]
            /\ UNCHANGED <<events, stats>>
       ELSE /\ mtasks' = [mtasks EXCEPT ![t].pc = "done",
                                      ![t].outcome = "processed",
                                      ![t].cache = IF ok THEN @ + 1 ELSE @,
                                      ![t].failed = IF ok THEN @ ELSE @ \cup {"redis"}]
            /\ Finish(t)
    /\ UNCHANGED <<sensors, gateways, tsdb, wsVars, mqttVars, legacyVars>>

CacheSetex(t, ok) ==
    /\ CacheStep(t, "setex", ok, "lpush")
    /\ cache_latest' = IF ok
                       THEN Put(cache_latest, mtasks[t].device, CacheData(mtasks[t]))
                       ELSE cache_latest
    /\ UNCHANGED cache_series

SeriesOf(device) ==
    IF device \in DOMAIN cache_series THEN cache_series[device] ELSE <<>>

CacheLpush(t, ok) ==
    /\ CacheStep(t, "lpush", ok, "ltrim")
    /\ cache_series' = IF ok
                       THEN Put(cache_series, mtasks[t].device,
                                Lpush(SeriesOf(mtasks[t].device), CacheData(mtasks[t])))
                       ELSE cache_series
    /\ UNCHANGED cache_latest

CacheLtrim(t, ok) ==
    /\ CacheStep(t, "ltrim", ok, "expire")
    /\ cache_series' = IF ok /\ mtasks[t].device \in DOMAIN cache_series
                       THEN Put(cache_series, mtasks[t].device,
                                Ltrim(cache_series[mtasks[t].device], 0, ltrim_stop))
                       ELSE cache_series
    /\ UNCHANGED cache_latest

CacheExpire(t, ok) ==
    /\ CacheStep(t, "expire", ok, "done")
    /\ UNCHANGED <<cache_latest, cache_series>>


\* =============================================== the legacy WebSocketManager
\* core/websocket_manager.py and the endpoints of api/v1/endpoints/websocket.py.
\* active_connections is a dict keyed by the client_id of the path; the loops
\* of broadcast and broadcast_to_subscribers iterate over the dict itself and
\* await send_text inside the loop.  A dict iterator walks the entries in
\* insertion order, skips the entries of deleted keys, sees the entries
\* inserted after it started, and raises RuntimeError when the number of keys
\* differs from the number at its creation.
ClientIds == {"a", "b"}
SensorIds == {"s1", "s2"}
SensorLists == SUBSET SensorIds \ {{}}
BroadcastIds == <<"broadcast_1", "broadcast_2", "broadcast_3">>
Tomb == "deleted"       \* the entry of a deleted key
AllClients == "all"     \* the scope of broadcast(message)

LReg == [active |-> l_active, entries |-> l_entries, subs |-> l_subs]

IdleBc ==
    [phase |-> "idle", sensor |-> None, used |-> 0, pos |-> 0, to |-> None,
     failed |-> <<>>, attempted |-> <<>>, start |-> {}, raised |-> FALSE]

\* the registry after a step; while no loop iterates over active_connections
\* the entries of deleted keys cannot be observed and are dropped
SetLReg(r, bc) ==
    /\ l_active' = r.active
    /\ l_subs' = r.subs
    /\ l_entries' = IF bc.phase \in {"idle", "done"}
                    THEN SelectSeq(r.entries, LAMBDA k : k # Tomb)
                    ELSE r.entries
    /\ l_bc' = bc

\* self.active_connections[client_id] = websocket
legacy_insert(r, client_id, ws) ==
    [r EXCEPT !.active = Put(r.active, client_id, ws),
              !.entries = IF client_id \in DOMAIN r.active
                          THEN r.entries ELSE Append(r.entries, client_id)]

\* del self.active_connections[client_id], when present
legacy_delete(r, client_id) ==
    IF client_id \in DOMAIN r.active
    THEN [r EXCEPT !.active = Del(r.active, client_id),
                   !.entries = [i \in DOMAIN r.entries |->
                                   IF r.entries[i] = client_id THEN Tomb ELSE r.entries[i]]]
    ELSE r

\* connect after accept: lines 20-21
legacy_connect(r, client_id, ws) ==
    [legacy_insert(r, client_id, ws) EXCEPT !.subs = Put(r.subs, client_id, {})]

\* disconnect: lines 24-30
legacy_disconnect(r, client_id) ==
    [legacy_delete(r, client_id) EXCEPT
        !.subs = IF client_id \in DOMAIN r.subs THEN Del(r.subs, client_id) ELSE r.subs]

\* self.client_subscriptions.get(client_id, set())
SubsGet(r, client_id) == IF client_id \in DOMAIN r.subs THEN r.subs[client_id] ELSE {}

\* subscribe_sensors: lines 80-86
subscribe_sensors(r, client_id, sensor_ids) ==
    [r EXCEPT !.subs = Put(r.subs, client_id, SubsGet(r, client_id) \cup sensor_ids)]

\* unsubscribe_sensors: lines 88-93
unsubscribe_sensors(r, client_id, sensor_ids) ==
    IF client_id \in DOMAIN r.subs
    THEN [r EXCEPT !.subs = Put(r.subs, client_id, r.subs[client_id] \ sensor_ids)]
    ELSE r

RECURSIVE DisconnectEach(_, _)
DisconnectEach(r, ids) ==
    IF ids = <<>> THEN r
    ELSE DisconnectEach(legacy_disconnect(r, Head(ids)), Tail(ids))

\* a loop that sends to every client, subscribed or not
Subscribed_everyone(r, bc, client_id) == TRUE

\* `if sensor_id in self.client_subscriptions.get(client_id, set())` (line 69);
\* broadcast has no such test
Subscribed(r, bc, client_id) ==
    bc.sensor = AllClients \/ bc.sensor \in SubsGet(r, client_id)

\* The for loop from its position to the next send_text, to its end, or to the
\* RuntimeError of the iterator: lines 48-53 and 67-74.
RECURSIVE Iterate(_, _)
Iterate(r, bc) ==
    IF Cardinality(DOMAIN r.active) # bc.used
    THEN [bc EXCEPT !.phase = "done", !.raised = TRUE]
    ELSE LET rest == {i \in DOMAIN r.entries : i > bc.pos /\ r.entries[i] # Tomb}
         IN  IF rest = {}
             THEN [bc EXCEPT !.phase = "cleanup"]
             ELSE LET i == CHOOSE j \in rest : \A h \in rest : j <= h
                      client_id == r.entries[i]
                  IN  IF Subscribed(r, bc, client_id)
                      THEN [bc EXCEPT !.phase = "sending", !.pos = i, !.to = client_id,
                                      !.attempted = Append(@, client_id)]
                      ELSE Iterate(r, [bc EXCEPT !.pos = i])

\* the loop goes on; when it ends, the clients whose send failed are
\* disconnected (lines 55-57 and 76-78), which a RuntimeError skips
RunLoop(r, bc) ==
    LET b == Iterate(r, bc)
    IN  IF b.phase = "cleanup"
        THEN SetLReg(DisconnectEach(r, b.failed), [b EXCEPT !.phase = "done"])
        ELSE SetLReg(r, b)

LegacyBusy == l_bc.phase = "done"

\* broadcast_to_subscribers(message, sensor_id), or broadcast(message) with
\* scope = AllClients, called while another coroutine awaits
LegacyBroadcast(scope) ==
    /\ l_bc.phase = "idle"
    /\ l_active # <<>>
    /\ RunLoop(LReg, [IdleBc EXCEPT !.sensor = scope,
                                    !.used = Cardinality(DOMAIN l_active),
                                    !.start = DOMAIN l_active])
    /\ UNCHANGED <<l_pc, l_id, wsVars, mqttVars, pipeVars>>

\* the send_text the loop awaits returns (ok) or raises
LegacySendDone(ok) ==
    /\ l_bc.phase = "sending"
    /\ RunLoop(LReg, IF ok THEN l_bc ELSE [l_bc EXCEPT !.failed = Append(@, l_bc.to)])
    /\ UNCHANGED <<l_pc, l_id, wsVars, mqttVars, pipeVars>>

\* the broadcast returns, or its RuntimeError reaches the caller
LegacyReturn ==
    /\ l_bc.phase = "done"
    /\ l_bc' = IdleBc
    /\ UNCHANGED <<l_active, l_entries, l_subs, l_pc, l_id, wsVars, mqttVars, pipeVars>>

\* websocket_endpoint: a client opens /ws/{client_id}; connect awaits accept
LegacyOpen(ws, client_id) ==
    /\ ~LegacyBusy
    /\ l_pc[ws] = "idle"
    /\ l_pc' = [l_pc EXCEPT ![ws] = "accept"]
    /\ l_id' = [l_id EXCEPT ![ws] = client_id]
    /\ UNCHANGED <<l_active, l_entries, l_subs, l_bc, wsVars, mqttVars, pipeVars>>

\* accept returned: lines 20-21, then the loop awaits receive_text
LegacyAccepted(ws) ==
    /\ ~LegacyBusy
    /\ l_pc[ws] = "accept"
    /\ SetLReg(legacy_connect(LReg, l_id[ws], ws), l_bc)
    /\ l_pc' = [l_pc EXCEPT ![ws] = "recv"]
    /\ UNCHANGED <<l_id, wsVars, mqttVars, pipeVars>>

\* accept raised: connect is called outside the try of the endpoint
LegacyAcceptFails(ws) ==
    /\ ~LegacyBusy
    /\ l_pc[ws] \in {"accept", "baccept"}
    /\ l_pc' = [l_pc EXCEPT ![ws] = "closed"]
    /\ UNCHANGED <<l_active, l_entries, l_subs, l_id, l_bc, wsVars, mqttVars, pipeVars>>

\* send_personal_message sends only to a client_id that has a connection
\* (line 34); otherwise the loop is back at receive_text without suspending
AfterFrame(ws) ==
    l_pc' = [l_pc EXCEPT ![ws] = IF l_id[ws] \in DOMAIN l_active THEN "reply" ELSE "recv"]

\* {"type": "subscribe", "sensor_ids": [...]}: endpoint lines 24-31
LegacyRecvSubscribe(ws, sensor_ids) ==
    /\ ~LegacyBusy
    /\ l_pc[ws] = "recv"
    /\ SetLReg(subscribe_sensors(LReg, l_id[ws], sensor_ids), l_bc)
    /\ AfterFrame(ws)
    /\ UNCHANGED <<l_id, wsVars, mqttVars, pipeVars>>

\* {"type": "unsubscribe", "sensor_ids": [...]}: endpoint lines 33-40
LegacyRecvUnsubscribe(ws, sensor_ids) ==
    /\ ~LegacyBusy
    /\ l_pc[ws] = "recv"
    /\ SetLReg(unsubscribe_sensors(LReg, l_id[ws], sensor_ids), l_bc)
    /\ AfterFrame(ws)
    /\ UNCHANGED <<l_id, wsVars, mqttVars, pipeVars>>

\* {"type": "ping"}: endpoint lines 42-47
LegacyRecvPing(ws) ==
    /\ ~LegacyBusy
    /\ l_pc[ws] = "recv"
    /\ l_id[ws] \in DOMAIN l_active
    /\ AfterFrame(ws)
    /\ UNCHANGED <<l_active, l_entries, l_subs, l_id, l_bc, wsVars, mqttVars, pipeVars>>

\* the send_text of send_personal_message returns (ok) or raises, and then
\* disconnect(client_id) runs (lines 38-40); the loop of the endpoint goes on
LegacyReplyDone(ws, ok) ==
    /\ ~LegacyBusy
    /\ l_pc[ws] = "reply"
    /\ SetLReg(IF ok THEN LReg ELSE legacy_disconnect(LReg, l_id[ws]), l_bc)
    /\ l_pc' = [l_pc EXCEPT ![ws] = "recv"]
    /\ UNCHANGED <<l_id, wsVars, mqttVars, pipeVars>>

\* receive_text raised WebSocketDisconnect, or json.loads raised: endpoint
\* lines 49-54
LegacyRecvDisconnect(ws) ==
    /\ ~LegacyBusy
    /\ l_pc[ws] = "recv"
    /\ SetLReg(legacy_disconnect(LReg, l_id[ws]), l_bc)
    /\ l_pc' = [l_pc EXCEPT ![ws] = "closed"]
    /\ UNCHANGED <<l_id, wsVars, mqttVars, pipeVars>>

\* broadcast_websocket: a client opens /ws/broadcast; endpoint lines 58-60
LegacyOpenBroadcast(ws) ==
    /\ ~LegacyBusy
    /\ l_pc[ws] = "idle"
    /\ l_pc' = [l_pc EXCEPT ![ws] = "baccept"]
    /\ l_id' = [l_id EXCEPT ![ws] = BroadcastIds[ws]]
    /\ UNCHANGED <<l_active, l_entries, l_subs, l_bc, wsVars, mqttVars, pipeVars>>

\* accept returned: endpoint lines 61-62, then the loop sleeps
LegacyBroadcastAccepted(ws) ==
    /\ ~LegacyBusy
    /\ l_pc[ws] = "baccept"
    /\ SetLReg(legacy_insert(LReg, l_id[ws], ws), l_bc)
    /\ l_pc' = [l_pc EXCEPT ![ws] = "bsleep"]
    /\ UNCHANGED <<l_id, wsVars, mqttVars, pipeVars>>

\* the heartbeat's send_text raised: endpoint lines 73-80
LegacyBroadcastClosed(ws) ==
    /\ ~LegacyBusy
    /\ l_pc[ws] = "bsleep"
    /\ SetLReg(legacy_delete(LReg, l_id[ws]), l_bc)
    /\ l_pc' = [l_pc EXCEPT ![ws] = "closed"]
    /\ UNCHANGED <<l_id, wsVars, mqttVars, pipeVars>>

\* ============================================================ specifications
InitWS ==
    /\ active_connections = {}
    /\ connection_info = <<>>
    /\ room_connections = <<>>
    /\ user_connections = <<>>
    /\ pc = [c \in Conns |-> "idle"]
    /\ collected = {}
    /\ fan = IdleFan
    /\ ndisc = [c \in Conns |-> 0]
    /\ handling = [c \in Conns |-> 0]

InitMQTT ==
    /\ is_running = FALSE
    /\ is_connected = FALSE
    /\ reconnect_attempts = 0
    /\ subscriptions = {}
    /\ net = "stopped"
    /\ mpc = "none"
    /\ rtask = NoTasks
    /\ cpc = "none"
    /\ subtask = 0
    /\ outage_attempts = 0

\* the rule lists a sensor may be configured with: up to MaxRules rules, each
\* with one of the six operators, enabled or not
Conditions == {">", "<", ">=", "<=", "==", "!="}
Threshold == 35
RuleNames == <<"rule1", "rule2", "rule3">>
RuleAt(i, condition, enabled) ==
    Rule(RuleNames[i], condition, Threshold,
         IF i = 1 THEN "warning" ELSE "critical", enabled)

RuleLists ==
    UNION {[1..n -> Conditions \X BOOLEAN] : n \in 0..MaxRules}

RulesFrom(choice) == [i \in DOMAIN choice |-> RuleAt(i, choice[i][1], choice[i][2])]

InitTables(known, row) ==
    /\ stats = [messages_received |-> 0, messages_processed |-> 0,
                messages_failed |-> 0]
    /\ sensors = [d \in known |-> row]
    /\ gateways = [d \in {G1} |-> GatewayRow]
    /\ tsdb = <<>>
    /\ cache_latest = <<>>
    /\ cache_series = <<>>
    /\ events = <<>>
    /\ mtasks = <<>>

InitStores(row) == InitTables({D1}, row)

InitPipe == InitStores(SensorRow(TRUE, RulesD1))

InitLegacy ==
    /\ l_active = <<>>
    /\ l_entries = <<>>
    /\ l_subs = <<>>
    /\ l_pc = [ws \in Conns |-> "idle"]
    /\ l_id = [ws \in Conns |-> None]
    /\ l_bc = IdleBc

Init == InitWS /\ InitMQTT /\ InitPipe /\ InitLegacy

\* sensor d1 configured with any of the rule lists, alarms enabled or not
InitAlarm ==
    /\ InitWS
    /\ InitMQTT
    /\ InitLegacy
    /\ \E enabled \in BOOLEAN, choice \in RuleLists :
          InitStores(SensorRow(enabled, RulesFrom(choice)))

Next ==
    \/ FanReturn
    \/ \E c \in Conns, u \in HandshakeUsers, r \in HandshakeRooms : Connect(c, u, r)
    \/ \E c \in Conns : AcceptFails(c)
    \/ \E c \in Conns, ok \in BOOLEAN : WelcomeDone(c, ok)
    \/ \E c \in Conns, ok \in BOOLEAN : ReplyDone(c, ok)
    \/ \E c \in Conns, r \in RoomNames : RecvJoinRoom(c, r)
    \/ \E c \in Conns : RecvLeaveRoom(c)
    \/ \E c \in Conns : RecvOther(c)
    \/ \E c \in Conns : RecvDisconnect(c)
    \/ \E c \in Conns : Collect(c)
    \/ \E excl \in SUBSET Conns : Broadcast(excl)
    \/ \E r \in RoomNames, excl \in SUBSET Conns : BroadcastToRoom(r, excl)
    \/ \E u \in UserIds : SendToUser(u)
    \/ \E i \in 1..NConn, sent \in BOOLEAN : SendStep(i, sent)
    \/ FanFinish

Spec == Init /\ [][Next]_vars

NextMQTT ==
    \/ Start
    \/ StartConnected
    \/ StartTimeout
    \/ NetSocketOpen
    \/ \E rc \in {0, 5} : OnConnect(rc)
    \/ SubscribeTopics
    \/ OnDisconnect
    \/ ReconnectTaskWake
    \/ ReconnectTaskConnected
    \/ ReconnectTaskTimeout
    \/ MessageLoopTick
    \/ MessageLoopWake
    \/ MessageLoopConnected
    \/ MessageLoopTimeout
    \/ Stop

SpecMQTT == Init /\ [][NextMQTT]_vars

\* the pipeline fed with every kind of frame, the stores failing or not
NextIngest ==
    \/ \E topic \in TopicSet, payload \in PayloadSet : OnMessage(topic, payload, MaxMsgs)
    \/ \E t \in 1..MaxMsgs, db_ok \in BOOLEAN, ts_ok \in BOOLEAN :
          ProcessMessage(t, db_ok, ts_ok)
    \/ \E t \in 1..MaxMsgs, ok \in BOOLEAN : CacheSetex(t, ok)
    \/ \E t \in 1..MaxMsgs, ok \in BOOLEAN : CacheLpush(t, ok)
    \/ \E t \in 1..MaxMsgs, ok \in BOOLEAN : CacheLtrim(t, ok)
    \/ \E t \in 1..MaxMsgs, ok \in BOOLEAN : CacheExpire(t, ok)

SpecIngest == Init /\ [][NextIngest]_vars

\* the pipeline fed with readings of sensor d1, every store working; the
\* first readings arrive one at a time, the later ones at any time
NextCache ==
    \/ /\ stats.messages_received < SequentialWrites => InFlight = 0
       /\ OnMessage(T_data, WithValue(30), MaxWrites)
    \/ \E t \in 1..MaxWrites : ProcessMessage(t, TRUE, TRUE)
    \/ \E t \in 1..MaxWrites : CacheSetex(t, TRUE)
    \/ \E t \in 1..MaxWrites : CacheLpush(t, TRUE)
    \/ \E t \in 1..MaxWrites : CacheLtrim(t, TRUE)
    \/ \E t \in 1..MaxWrites : CacheExpire(t, TRUE)

SpecCache == Init /\ [][NextCache]_vars

\* readings of sensor d1 below, at and above the threshold, every store working
AlarmValues == {30, 35, 40}

NextAlarm ==
    \/ \E v \in AlarmValues : OnMessage(T_data, WithValue(v), MaxMsgs)
    \/ \E t \in 1..MaxMsgs : ProcessMessage(t, TRUE, TRUE)
    \/ \E t \in 1..MaxMsgs : CacheSetex(t, TRUE)
    \/ \E t \in 1..MaxMsgs : CacheLpush(t, TRUE)
    \/ \E t \in 1..MaxMsgs : CacheLtrim(t, TRUE)
    \/ \E t \in 1..MaxMsgs : CacheExpire(t, TRUE)

SpecAlarm == InitAlarm /\ [][NextAlarm]_vars

\* the hand-off of a frame to its task.  The thread that runs _on_message is
\* an input here: the thread of the event loop, as the other specifications
\* take it, or the network thread of the client.
HandoffTopics == {T_data, T_heartbeat, T_alert}

HandoffPayloads == {BadJson} \cup {WithValue(v) : v \in Values}

NextHandoff ==
    \/ \E topic \in HandoffTopics, payload \in HandoffPayloads :
          OnMessage(topic, payload, MaxMsgs)
    \/ \E topic \in HandoffTopics, payload \in HandoffPayloads :
          OnMessageInNetworkThread(topic, payload, MaxMsgs)
    \/ \E t \in 1..MaxMsgs, db_ok \in BOOLEAN, ts_ok \in BOOLEAN :
          ProcessMessage(t, db_ok, ts_ok)
    \/ \E t \in 1..MaxMsgs, ok \in BOOLEAN : CacheSetex(t, ok)
    \/ \E t \in 1..MaxMsgs, ok \in BOOLEAN : CacheLpush(t, ok)
    \/ \E t \in 1..MaxMsgs, ok \in BOOLEAN : CacheLtrim(t, ok)
    \/ \E t \in 1..MaxMsgs, ok \in BOOLEAN : CacheExpire(t, ok)

SpecHandoff == Init /\ [][NextHandoff]_vars

\* the pipeline fed with status messages of known and unknown sensors and
\* gateways, the commit failing or not.  The sensors table holds d1 and a
\* sensor whose device_id is "data".
DATA == <<"data">>
StatusTopics == {T_status, T_status_dx, T_status_of_data, T_gw_status, T_gw_status_gx}
StatusPayloads == {NoValue, WithStatus("online", None), WithStatus("offline", ""),
                   WithStatus("error", "boom")}

InitStatus ==
    /\ InitWS
    /\ InitMQTT
    /\ InitLegacy
    /\ InitTables({D1, DATA}, SensorRow(TRUE, RulesD1))

NextStatus ==
    \/ \E topic \in StatusTopics, payload \in StatusPayloads :
          OnMessage(topic, payload, MaxMsgs)
    \/ \E t \in 1..MaxMsgs, db_ok \in BOOLEAN : ProcessMessage(t, db_ok, TRUE)

SpecStatus == InitStatus /\ [][NextStatus]_vars

\* the legacy manager: clients of both endpoints, their frames, and one
\* broadcast at a time
NextLegacy ==
    \/ \E ws \in Conns, client_id \in ClientIds : LegacyOpen(ws, client_id)
    \/ \E ws \in Conns : LegacyAccepted(ws)
    \/ \E ws \in Conns : LegacyAcceptFails(ws)
    \/ \E ws \in Conns, sensor_ids \in SensorLists : LegacyRecvSubscribe(ws, sensor_ids)
    \/ \E ws \in Conns, sensor_ids \in SensorLists : LegacyRecvUnsubscribe(ws, sensor_ids)
    \/ \E ws \in Conns : LegacyRecvPing(ws)
    \/ \E ws \in Conns, ok \in BOOLEAN : LegacyReplyDone(ws, ok)
    \/ \E ws \in Conns : LegacyRecvDisconnect(ws)
    \/ \E ws \in Conns : LegacyOpenBroadcast(ws)
    \/ \E ws \in Conns : LegacyBroadcastAccepted(ws)
    \/ \E ws \in Conns : LegacyBroadcastClosed(ws)
    \/ \E scope \in SensorIds \cup {AllClients} : LegacyBroadcast(scope)
    \/ \E ok \in BOOLEAN : LegacySendDone(ok)
    \/ LegacyReturn

SpecLegacy == Init /\ [][NextLegacy]_vars


\* ===================================================================== claims
RoomsOf(c) == {r \in DOMAIN room_connections : c \in room_connections[r]}
UsersOf(c) == {u \in DOMAIN user_connections : c \in user_connections[u]}

Absent(c) ==
    /\ c \notin active_connections
    /\ c \notin DOMAIN connection_info
    /\ RoomsOf(c) = {}
    /\ UsersOf(c) = {}

\* the recipients whose send task has run, succeeded, raised
Attempted == {fan.tasks[i] : i \in {j \in DOMAIN fan.res : fan.res[j] # "pending"}}
Succeeded == {fan.tasks[i] : i \in {j \in DOMAIN fan.res : fan.res[j] = "ok"}}
TrulyFailed == {fan.tasks[i] : i \in FailIdx}

C2_ExactlyOneRoom ==
    \A c \in DOMAIN connection_info : Cardinality(RoomsOf(c)) = 1

\* C3: once the disconnect that ends handle_connection has returned, the
\* connection is absent from the primary set, connection_info, every room set
\* and every user set.
C3_AbsentAfterDisconnect ==
    \A c \in Conns : pc[c] = "done" => Absent(c)

\* C4: a disconnect of a connection that connection_info no longer holds
\* changes nothing, and a disconnect of a registered connection leaves it
\* absent from the four structures, so the second of two disconnects is a
\* no-op.
DisconnectStep(c) ==
    \/ ndisc'[c] > ndisc[c]
    \/ pc[c] # "done" /\ pc'[c] = "done"

MembershipOf(c) ==
    <<c \in active_connections, c \in DOMAIN connection_info, RoomsOf(c), UsersOf(c)>>

C4_SecondDisconnectNoOp ==
    [][\A c \in Conns :
          DisconnectStep(c) =>
             IF c \in DOMAIN connection_info
             THEN Absent(c)'
             ELSE /\ MembershipOf(c)' = MembershipOf(c)
                  /\ (\A d \in Conns \ {c} : ~DisconnectStep(d)) =>
                        UNCHANGED <<active_connections, connection_info,
                                    room_connections, user_connections>>]_vars

\* a connection disconnected twice (by a failed send, then by its handler)
\* while another connection is still registered
C4_Witness ==
    \E c, d \in Conns :
        /\ ndisc[c] = 2
        /\ pc[c] = "done"
        /\ Absent(c)
        /\ d \in DOMAIN connection_info

\* C5: when a fan-out call has processed its results, exactly the recipients
\* whose send raised have been removed from the registry, and every recipient
\* had its send attempted.
C5_OnlyFailedRemoved ==
    fan.phase = "done" =>
        /\ \A c \in TrulyFailed : c \notin DOMAIN connection_info
        /\ fan.removed \subseteq TrulyFailed
        /\ Attempted = Range(fan.tasks)

\* C6: a room broadcast sends to exactly the members the room had when the
\* call was made, minus the exclusion set, one send each, whatever joins and
\* leaves happen while the sends run.
C6_RoomBroadcastScope ==
    (fan.kind = "room" /\ fan.phase \in {"sending", "done"}) =>
        /\ Range(fan.tasks) = fan.scope \ fan.excl
        /\ Len(fan.tasks) = Cardinality(Range(fan.tasks))
        /\ Attempted \subseteq fan.scope \ fan.excl
        /\ fan.phase = "done" => Attempted = fan.scope \ fan.excl

\* a room broadcast that finished after one connection joined the room and
\* a recipient left it while the sends ran
C6_Witness ==
    /\ fan.kind = "room"
    /\ fan.phase = "done"
    /\ Attempted # {}
    /\ fan.target \in DOMAIN room_connections
    /\ room_connections[fan.target] \ fan.scope # {}
    /\ fan.scope \ room_connections[fan.target] # {}

\* C7: a broadcast sends to exactly the connections registered when the call
\* was made that are not excluded, one send each.
C7_BroadcastScope ==
    (fan.kind = "broadcast" /\ fan.phase \in {"sending", "done"}) =>
        /\ Range(fan.tasks) = fan.scope \ fan.excl
        /\ Len(fan.tasks) = Cardinality(Range(fan.tasks))
        /\ Attempted \cap fan.excl = {}
        /\ fan.phase = "done" => Attempted = fan.scope \ fan.excl

\* a finished broadcast that excluded a registered connection and sent to
\* another
C7_Witness ==
    /\ fan.kind = "broadcast"
    /\ fan.phase = "done"
    /\ fan.scope \cap fan.excl # {}
    /\ Succeeded # {}

\* C8: send_to_user sends to exactly the connections of that user, returns
\* True iff a send succeeded, and returns False without sending when the user
\* has no connection.
C8_SendToUser ==
    (fan.kind = "user" /\ fan.phase = "done") =>
        /\ Attempted = fan.scope
        /\ \A c \in Attempted :
              c \in DOMAIN connection_info => connection_info[c].user_id = fan.target
        /\ fan.ret = (IF Succeeded # {} THEN "True" ELSE "False")

\* C9: once max_reconnect_attempts attempts have been made and have ended
\* without a connection, no connection attempt is started any more.
C9_NoAttemptAfterCap ==
    [][(outage_attempts = max_reconnect_attempts /\ rtask = NoTasks
            /\ ~is_connected)
        => ~(mpc # "connecting" /\ mpc' = "connecting")]_vars

\* C10: once a connection of the running service is established and the work
\* it started has ended, the five topics are subscribed and reconnect_attempts
\* is 0.
C10_ConnectSubscribesAndResets ==
    (/\ is_running
     /\ is_connected
     /\ subtask = 0
     /\ rtask = NoTasks
     /\ cpc # "waiting"
     /\ mpc \in {"none", "sleep", "exited"})
    => (subscriptions = Topics /\ reconnect_attempts = 0)

\* ------------------------------------------------------ the message pipeline
Max(S) == CHOOSE x \in S : \A y \in S : y <= x

\* a frame on sensors/{device_id}/data
IsDataMessage(tk) ==
    LET s == Split(tk.topic)
    IN  Len(s) = 3 /\ s[1] = <<"sensors">> /\ s[3] = <<"data">>

\* ... that is JSON with a value and names a sensor of the table
IsValidReading(tk) ==
    /\ IsDataMessage(tk)
    /\ tk.payload.json
    /\ tk.payload.has_value
    /\ Split(tk.topic)[2] \in DOMAIN sensors

EventsOf(tk, type) == SelectSeq(events, LAMBDA e : e.msg = tk.msg /\ e.type = type)

PointsOf(tk) == SelectSeq(tsdb, LAMBDA p : p.time = tk.msg)

\* the enabled rules of a sensor that the value satisfies
SatisfiedRules(sensor, value) ==
    {i \in DOMAIN sensor.alarm_rules :
        /\ sensor.alarm_enabled
        /\ sensor.alarm_rules[i].enabled
        /\ Triggered(sensor.alarm_rules[i].condition, value,
                     sensor.alarm_rules[i].threshold)}

\* the rules triggered by the reading of a task: those its value satisfies
\* when the value is a number
TriggeredRules(tk) ==
    IF IsNumber(tk.payload)
    THEN SatisfiedRules(sensors[tk.device], tk.payload.value)
    ELSE {}

\* the tasks that committed a reading to a sensor's row
Committed(device) ==
    {t \in DOMAIN mtasks :
        mtasks[t].handler = "data" /\ mtasks[t].db = 1 /\ mtasks[t].device = device}

StatusTasks(device) ==
    {t \in DOMAIN mtasks :
        mtasks[t].handler = "status" /\ mtasks[t].db = 1 /\ mtasks[t].device = device}

\* C11: a data message with a value for a known sensor, handled while the
\* stores accept the writes, makes exactly one device-state update (last
\* value, last data time, status online, counter + 1), one time-series write,
\* one cache refresh and one sensor_data event carrying the value, plus one
\* alarm event per satisfied enabled rule.
C11_OneEffectEach ==
    /\ \A t \in DOMAIN mtasks :
          LET tk == mtasks[t]
          IN  (IsValidReading(tk) /\ tk.pc = "done" /\ tk.failed = {}) =>
                 /\ tk.db = 1
                 /\ tk.ts = 1
                 /\ Len(PointsOf(tk)) = 1
                 /\ PointsOf(tk)[1].value = FieldValue(tk.payload)
                 /\ tk.cache = 4
                 /\ Len(EventsOf(tk, "sensor_data")) = 1
                 /\ EventsOf(tk, "sensor_data")[1].value = tk.payload.value
                 /\ Len(EventsOf(tk, "alarm")) = Cardinality(TriggeredRules(tk))
    /\ \A d \in DOMAIN sensors :
          /\ sensors[d].data_points_count = Cardinality(Committed(d))
          /\ Committed(d) # {} =>
                LET last == Max(Committed(d))
                IN  /\ sensors[d].last_value = Str(mtasks[last].payload.value)
                    /\ sensors[d].last_data_time = mtasks[last].msg
                    /\ (\A s \in StatusTasks(d) : s < last) =>
                          sensors[d].status = "online"

\* two readings of sensor d1 handled to the end, the second one raising two
\* alarms
C11_Witness ==
    /\ Len(mtasks) = 2
    /\ \A t \in DOMAIN mtasks :
          /\ IsValidReading(mtasks[t])
          /\ mtasks[t].pc = "done"
          /\ mtasks[t].failed = {}
    /\ mtasks[2].payload.value = 40
    /\ Len(EventsOf(mtasks[2], "alarm")) = 2
    /\ sensors[D1].data_points_count = 2


\* the frame left no trace in the stores and produced no event
NoEffect(tk) ==
    /\ tk.db = 0
    /\ tk.ts = 0
    /\ tk.cache = 0
    /\ PointsOf(tk) = <<>>
    /\ \A i \in DOMAIN events : events[i].msg # tk.msg

\* a data message with a value that names no sensor of the table
IsUnknownDevice(tk) ==
    /\ IsDataMessage(tk)
    /\ tk.payload.json
    /\ tk.payload.has_value
    /\ Split(tk.topic)[2] \notin DOMAIN sensors

CountedFailed(S) == Cardinality({t \in S : mtasks[t].outcome = "failed"})

\* C12: a data message for an unknown device updates no record, writes no
\* point and no cache entry, produces no event, and is counted in
\* messages_failed and not in messages_processed.
C12_UnknownDeviceCountsFailed ==
    /\ \A t \in DOMAIN mtasks :
          (IsUnknownDevice(mtasks[t]) /\ mtasks[t].pc = "done") =>
             /\ NoEffect(mtasks[t])
             /\ mtasks[t].outcome = "failed"
    /\ (\A t \in DOMAIN mtasks : IsUnknownDevice(mtasks[t]) /\ mtasks[t].pc = "done") =>
          /\ stats.messages_failed = Len(mtasks)
          /\ stats.messages_processed = 0


\* a frame that is not JSON, or a data message without a value
IsMalformed(tk) ==
    \/ ~tk.payload.json
    \/ IsDataMessage(tk) /\ tk.payload.json /\ ~tk.payload.has_value

\* C13: a frame that is not valid JSON, and a data message without the value
\* field, have no persistence or fan-out effect and are counted once in
\* messages_failed and not in messages_processed.
C13_MalformedCountsFailed ==
    /\ \A t \in DOMAIN mtasks :
          (IsMalformed(mtasks[t]) /\ mtasks[t].pc = "done") =>
             /\ NoEffect(mtasks[t])
             /\ mtasks[t].outcome = "failed"
    /\ (\A t \in DOMAIN mtasks : IsMalformed(mtasks[t]) /\ mtasks[t].pc = "done") =>
          /\ stats.messages_failed = Len(mtasks)
          /\ stats.messages_processed = 0


\* the topic matches one of the five subscribed patterns
MatchesSubscription(topic) ==
    LET s == Split(topic)
    IN  /\ Len(s) = 3
        /\ Len(s[2]) > 0
        /\ <<s[1], s[3]>> \in {<<<<"sensors">>, <<"data">>>>,
                               <<<<"sensors">>, <<"status">>>>,
                               <<<<"gateways">>, <<"heartbeat">>>>,
                               <<<<"gateways">>, <<"status">>>>,
                               <<<<"system">>, <<"alert">>>>}

\* C14: for a topic matching a subscribed pattern the handler is the one of
\* the topic's last segment and the device identifier is the second segment,
\* also when the identifier is one of the words data, status, heartbeat, alert.
C14_HandlerByLastSegment ==
    \A t \in DOMAIN mtasks :
        LET tk == mtasks[t]
        IN  (MatchesSubscription(tk.topic) /\ tk.payload.json /\ tk.pc # "start") =>
               /\ <<tk.handler>> = Split(tk.topic)[3]
               /\ tk.handler # "alert" => tk.device = Split(tk.topic)[2]


\* the last segment of the topic is data, status, heartbeat or alert
HasKnownSuffix(topic) ==
    LET s == Split(topic)
    IN  s[Len(s)] \in {<<"data">>, <<"status">>, <<"heartbeat">>, <<"alert">>}

\* C15: a frame whose topic has none of the suffixes data, status, heartbeat,
\* alert is dropped without side effects: no record, point or cache entry is
\* written and no event is produced.
C15_UnknownTopicNoEffect ==
    \A t \in DOMAIN mtasks :
        (~HasKnownSuffix(mtasks[t].topic) /\ mtasks[t].pc # "start") =>
           /\ NoEffect(mtasks[t])
           /\ mtasks[t].pc = "done"


\* ---------------------------------------------------------------- alarms
\* v op t, read as arithmetic
Holds(op, v, t) ==
    CASE op = ">" -> v > t
      [] op = "<" -> v < t
      [] op = ">=" -> ~(v < t)
      [] op = "<=" -> ~(v > t)
      [] op = "==" -> v = t
      [] op = "!=" -> ~(v = t)

\* the alarms of a finished reading, as dispatched
AlarmsRaised(tk) == EventsOf(tk, "alarm")

RaisedFor(tk, rule) ==
    \E i \in DOMAIN AlarmsRaised(tk) : AlarmsRaised(tk)[i].rule_name = rule.name

\* C16: with alarms enabled, an enabled rule with operator op and threshold t
\* raises an alarm for the value v iff v op t: "> 35" raises for 40 and not
\* for 30 or 35, ">= 35" raises for 35.
C16_AlarmIffConditionHolds ==
    \A t \in DOMAIN mtasks :
        LET tk == mtasks[t]
            sensor == sensors[D1]
        IN  (tk.pc = "done" /\ sensor.alarm_enabled) =>
               \A i \in DOMAIN sensor.alarm_rules :
                   LET rule == sensor.alarm_rules[i]
                   IN  rule.enabled =>
                          /\ RaisedFor(tk, rule) <=>
                                Holds(rule.condition, tk.payload.value, rule.threshold)
                          /\ (rule.condition = ">" /\ rule.threshold = 35) =>
                                (RaisedFor(tk, rule) <=> tk.payload.value = 40)
                          /\ (rule.condition = ">=" /\ rule.threshold = 35
                                 /\ tk.payload.value = 35) => RaisedFor(tk, rule)

\* the value 35 handled under the rules "> 35" and ">= 35": only the second
\* one raised an alarm
C16_Witness ==
    \E t \in DOMAIN mtasks :
        /\ mtasks[t].pc = "done"
        /\ mtasks[t].payload.value = 35
        /\ sensors[D1].alarm_enabled
        /\ Len(sensors[D1].alarm_rules) = 2
        /\ sensors[D1].alarm_rules[1].condition = ">"
        /\ sensors[D1].alarm_rules[1].enabled
        /\ sensors[D1].alarm_rules[2].condition = ">="
        /\ sensors[D1].alarm_rules[2].enabled
        /\ ~RaisedFor(mtasks[t], sensors[D1].alarm_rules[1])
        /\ RaisedFor(mtasks[t], sensors[D1].alarm_rules[2])

\* the enabled rules the value satisfies, in the order of the rule list
ExpectedRules(sensor, v) ==
    SelectSeq(sensor.alarm_rules,
              LAMBDA r : sensor.alarm_enabled /\ r.enabled
                            /\ Holds(r.condition, v, r.threshold))

AlarmFields(e) == <<e.rule_name, e.severity, e.value, e.threshold>>

\* C17: a reading raises one alarm event (rule name, severity, value,
\* threshold) per enabled rule its value satisfies and none for a disabled
\* rule or a sensor with alarms disabled; the alarms depend only on the value
\* and the rules, so an equal value in a later reading raises them again.
C17_OneAlarmPerSatisfiedRule ==
    /\ \A t \in DOMAIN mtasks :
          LET tk == mtasks[t]
              expected == ExpectedRules(sensors[D1], tk.payload.value)
          IN  tk.pc = "done" =>
                 /\ Len(AlarmsRaised(tk)) = Len(expected)
                 /\ \A i \in DOMAIN expected :
                       AlarmFields(AlarmsRaised(tk)[i]) =
                          <<expected[i].name, expected[i].severity,
                            tk.payload.value, expected[i].threshold>>
    /\ \A t, u \in DOMAIN mtasks :
          (/\ mtasks[t].pc = "done"
           /\ mtasks[u].pc = "done"
           /\ mtasks[t].payload.value = mtasks[u].payload.value) =>
             [i \in DOMAIN AlarmsRaised(mtasks[t]) |-> AlarmFields(AlarmsRaised(mtasks[t])[i])]
                = [i \in DOMAIN AlarmsRaised(mtasks[u]) |-> AlarmFields(AlarmsRaised(mtasks[u])[i])]

\* two consecutive readings of 40 under two enabled rules that both hold:
\* four alarm events
C17_Witness ==
    /\ Len(mtasks) = 2
    /\ \A t \in DOMAIN mtasks : mtasks[t].pc = "done" /\ mtasks[t].payload.value = 40
    /\ Len(ExpectedRules(sensors[D1], 40)) = 2
    /\ Len(SelectSeq(events, LAMBDA e : e.type = "alarm")) = 4


\* ------------------------------------------------------------------ cache
\* C18: the cached series of a sensor never holds more than 100 entries in
\* any state, whatever the interleaving of the tasks that write it, and once
\* N >= 100 readings have been written one after the other it holds the 100
\* most recent ones, newest first.
C18_SeriesAtMost100 ==
    /\ \A d \in DOMAIN cache_series : Len(cache_series[d]) <= 100
    /\ (/\ Len(mtasks) >= 100
        /\ \A t \in DOMAIN mtasks : mtasks[t].pc = "done") =>
          /\ Len(cache_series[D1]) = 100
          /\ \A i \in 1..100 : cache_series[D1][i].timestamp > Len(mtasks) - 100
          /\ Len(mtasks) <= SequentialWrites + 1 =>
                \A i \in 1..100 :
                    cache_series[D1][i].timestamp = Len(mtasks) + 1 - i

\* ------------------------------------------------------- store failures
\* everything a reading does after its device-state update, the time-series
\* write aside
RestDone(tk) ==
    /\ tk.db = 1
    /\ tk.cache = 4
    /\ tk.outcome = "processed"
    /\ Len(EventsOf(tk, "sensor_data")) = 1
    /\ Len(EventsOf(tk, "alarm")) = Cardinality(TriggeredRules(tk))

\* C19: a failed time-series write leaves the committed device-state update
\* in place and the cache refresh and the fan-out of that message still
\* happen; a failed relational update removes no point written before; every
\* later message is handled as if nothing had failed.
C19_FailureDoesNotSpread ==
    /\ \A t \in DOMAIN mtasks :
          LET tk == mtasks[t]
          IN  (IsValidReading(tk) /\ tk.pc = "done") =>
                 /\ tk.failed = {"ts"} => (RestDone(tk) /\ tk.ts = 0)
                 /\ tk.failed = {} => (RestDone(tk) /\ tk.ts = 1)
                 /\ tk.failed = {"db"} => NoEffect(tk)
    /\ \A d \in DOMAIN sensors : sensors[d].data_points_count = Cardinality(Committed(d))
    /\ Len(tsdb) = Cardinality({t \in DOMAIN mtasks : mtasks[t].ts = 1})
    /\ \A t \in DOMAIN mtasks : mtasks[t].ts = 1 => Len(PointsOf(mtasks[t])) = 1

\* a reading whose time-series write failed, followed by a reading handled
\* without failure
C19_Witness ==
    /\ Len(mtasks) = 2
    /\ \A t \in DOMAIN mtasks : IsValidReading(mtasks[t]) /\ mtasks[t].pc = "done"
    /\ mtasks[1].failed = {"ts"}
    /\ RestDone(mtasks[1])
    /\ mtasks[2].failed = {}
    /\ mtasks[2].ts = 1
    /\ sensors[D1].data_points_count = 2
    /\ Len(tsdb) = 1


\* ------------------------------------------------------- control frames
\* C20: the frames of a connection are handled one at a time in the order
\* received: the loop receives frame k+1 only when frame k's registry change
\* and reply are finished, so at most one frame of a connection is being
\* handled and the replies come in the order of the requests.
C20_OneFrameAtATime ==
    /\ \A c \in Conns : handling[c] <= 1
    /\ \A c \in Conns : handling[c] = 1 <=> pc[c] = "reply"

\* a connection whose join_room frame is being answered after an earlier
\* frame of it was answered, while another connection is answering too
C20_Witness ==
    \E c, d \in Conns :
        /\ c # d
        /\ handling[c] = 1
        /\ handling[d] = 1
        /\ c \in DOMAIN connection_info
        /\ connection_info[c].room = "r1"
        /\ "default" \in DOMAIN room_connections

\* ---------------------------------------------------------------- shutdown
\* the step in which MQTTService.stop() runs, after a start() that succeeded
StopStep == cpc = "started" /\ is_running /\ ~is_running'

\* C21: the shutdown (MQTTService.stop, then WebSocketService.stop), from
\* whatever state it is started in, halts the network loop of the ingress
\* client and leaves the client not connected; from then on the loop stays
\* halted, the client does not become connected again and no subscription is
\* left through which frames would arrive.
C21_ShutdownHalts ==
    /\ [][StopStep => (net' = "stopped" /\ ~is_connected' /\ subscriptions' = {})]_vars
    /\ [][(cpc = "started" /\ ~is_running /\ ~is_connected)
             => (~is_connected' /\ subscriptions' = {})]_vars

\* ------------------------------------------------------------ liveness probe
\* ping_all is broadcast(ping_message) without an exclusion set, called by
\* _ping_loop every 30 s while the service runs
ProbeDone == fan.kind = "broadcast" /\ fan.excl = {} /\ fan.phase = "done"

\* C22: a probe is sent to every connection registered when it starts, and
\* when it has processed its results every connection whose send raised has
\* been removed from the registry and no other connection has been removed.
C22_ProbeRemovesOnlyBroken ==
    ProbeDone =>
        /\ Range(fan.tasks) = fan.scope
        /\ \A c \in TrulyFailed :
              c \notin active_connections /\ c \notin DOMAIN connection_info
        /\ fan.removed \subseteq TrulyFailed

\* -------------------------------------------------------------------- rooms
\* C23: room_connections never holds a room without a member: a room is
\* created with its first member and deleted when its last member leaves by
\* disconnect or change_room; a change from room R to R leaves R in place
\* with the connection in it.
C23_NoEmptyRoom ==
    /\ [](\A r \in DOMAIN room_connections : room_connections[r] # {})
    /\ [][\A c \in Conns :
            (c \in DOMAIN connection_info /\ pc[c] = "recv" /\ pc'[c] = "reply"
                /\ c \in DOMAIN connection_info'
                /\ ~Falsy(connection_info'[c].room)) =>
               /\ connection_info'[c].room \in DOMAIN room_connections'
               /\ c \in room_connections'[connection_info'[c].room]]_vars

\* ------------------------------------------------------- device records
\* C24: no step of the pipeline creates or deletes a sensor or gateway
\* record: the device ids of both tables stay what they are, whatever kind of
\* frame is handled and whether or not it names a device of the table.
C24_NoRecordCreatedOrDeleted ==
    [][/\ DOMAIN sensors' = DOMAIN sensors
       /\ DOMAIN gateways' = DOMAIN gateways]_vars

\* a heartbeat of a gateway that is not in the table was handled, and so was
\* a reading of sensor d1, which updated d1's row
C24_Witness ==
    /\ Len(mtasks) = 2
    /\ mtasks[1].pc = "done"
    /\ mtasks[1].handler = "heartbeat"
    /\ mtasks[1].device \notin DOMAIN gateways
    /\ mtasks[1].outcome = "processed"
    /\ mtasks[2].pc = "done"
    /\ mtasks[2].handler = "data"
    /\ mtasks[2].db = 1
    /\ sensors[D1].data_points_count = 1
    /\ DOMAIN sensors = {D1}
    /\ DOMAIN gateways = {G1}

\* the status values of a device record
StatusValues == {"offline", "online", "warning", "error"}

\* C25: the status of every sensor and gateway is one of offline, online,
\* warning, error in every state, whatever data, status and heartbeat
\* messages were handled, a status message without a status value included.
C25_StatusInRange ==
    /\ \A d \in DOMAIN sensors : sensors[d].status \in StatusValues
    /\ \A d \in DOMAIN gateways : gateways[d].status \in StatusValues

\* ------------------------------------------------- alarms of accepted readings
\* the reading of a task was accepted: its device-state update was committed
\* and its point was written
Accepted(tk) == tk.handler = "data" /\ tk.db = 1 /\ tk.ts = 1

\* C26: every accepted reading is evaluated against the rules of its sensor:
\* when the handling of an accepted reading has ended, an alarm event has been
\* produced for every enabled rule of the sensor that the reading's value
\* satisfies.
C26_AcceptedReadingEvaluated ==
    \A t \in DOMAIN mtasks :
        LET tk == mtasks[t]
        IN  (Accepted(tk) /\ tk.pc = "done") =>
               \A i \in SatisfiedRules(sensors[tk.device], tk.payload.value) :
                   RaisedFor(tk, sensors[tk.device].alarm_rules[i])

\* ------------------------------------------------------- stalled recipients
\* C27: while a fan-out call awaits its sends, every send that has not
\* finished can finish next, whichever other sends are still pending: a
\* recipient whose send never completes holds back no other recipient.
C27_StalledSendDoesNotBlock ==
    fan.phase = "sending" =>
        \A i \in DOMAIN fan.tasks :
            fan.res[i] = "pending" => ENABLED SendStep(i, TRUE)

\* the second recipient's send has succeeded while the send to the first
\* recipient is still pending
C27_Witness ==
    /\ fan.phase = "sending"
    /\ Len(fan.tasks) = 2
    /\ fan.res[1] = "pending"
    /\ fan.res[2] = "ok"

\* ------------------------------------------------------------- the hand-off
\* C28: every frame _on_message receives is handed to a _process_message task
\* of its own: the tasks are as many as the frames received, in every state.
C28_EveryFrameGetsTask ==
    /\ Len(mtasks) = stats.messages_received
    /\ \A t \in DOMAIN mtasks : mtasks[t].msg = t

\* ------------------------------------------------------------ room frames
\* the rooms of every connection but c are what they were
OthersKeepRooms(c) == \A d \in Conns \ {c} : RoomsOf(d)' = RoomsOf(d)

\* C29: a join_room frame naming a room moves the sending connection from its
\* old room to that room, so that it is in the named room and in no other,
\* and the answer goes to that connection alone; a leave_room frame moves it
\* to "default" in the same way; a join_room frame without a room name is
\* answered and leaves every room as it was.
C29_JoinAndLeaveMove ==
    [][\A c \in Conns :
          /\ \A r \in RoomNames :
                RecvJoinRoom(c, r) =>
                   (RoomsOf(c)' = {r} /\ OthersKeepRooms(c) /\ pc'[c] = "reply")
          /\ RecvLeaveRoom(c) =>
                (RoomsOf(c)' = {"default"} /\ OthersKeepRooms(c) /\ pc'[c] = "reply")
          /\ RecvOther(c) =>
                (room_connections' = room_connections /\ pc'[c] = "reply")]_vars

\* ------------------------------------------------------- frames in error
RegistryUnchanged ==
    UNCHANGED <<active_connections, connection_info, room_connections,
                user_connections>>

\* C30: a frame that is not JSON, has no type or has a type without a handler
\* changes nothing in the registry and starts no fan-out: one answer is owed
\* to the connection that sent it and to no other; when that answer has been
\* sent the connection is registered as before and its loop is back at the
\* receive, where the next frame is handled.
C30_BadFrameAnsweredOnly ==
    [][\A c \in Conns :
          /\ RecvOther(c) =>
                /\ RegistryUnchanged
                /\ fan' = fan
                /\ pc'[c] = "reply"
                /\ handling'[c] = handling[c] + 1
                /\ \A d \in Conns \ {c} : pc'[d] = pc[d] /\ handling'[d] = handling[d]
          /\ (pc[c] = "reply" /\ ReplyDone(c, TRUE)) =>
                /\ RegistryUnchanged
                /\ pc'[c] = "recv"
                /\ handling'[c] = 0]_vars

\* the answer to a frame of a connection that is registered with a user and
\* without a room (so that no join_room or leave_room frame of it was handled)
\* is being sent, while another connection is registered
C30_Witness ==
    \E c, d \in Conns :
        /\ c # d
        /\ pc[c] = "reply"
        /\ handling[c] = 1
        /\ ndisc[c] = 0
        /\ c \in DOMAIN connection_info
        /\ connection_info[c].room = None
        /\ connection_info[c].user_id = "u1"
        /\ c \in active_connections
        /\ d \in DOMAIN connection_info
        /\ pc[d] = "recv"

\* ---- C31
\* A status message (topic sensors/<id>/status or gateways/<id>/status) whose
\* commit did not fail: for a known sensor the row's status becomes the
\* payload's status ("unknown" when the payload carries none), its error
\* counter grows by one exactly when the payload's error is non-empty, and
\* exactly one sensor_status event is fanned out; for a known gateway the
\* status is set and exactly one gateway_status event is fanned out; for an
\* unknown device no row changes and nothing is fanned out.
IsStatusTopic(topic) ==
    /\ Len(Split(topic)) = 3
    /\ Split(topic)[1] \in {<<"sensors">>, <<"gateways">>}
    /\ Split(topic)[3] = <<"status">>

StatusHandled(t) ==
    /\ t \in DOMAIN mtasks
    /\ mtasks[t].pc = "start"
    /\ mtasks'[t].pc = "done"
    /\ mtasks[t].payload.json
    /\ IsStatusTopic(mtasks[t].topic)
    /\ "db" \notin mtasks'[t].failed

StatusEffect(t) ==
    LET tk == mtasks[t]
        dev == Split(tk.topic)[2]
        kind == Split(tk.topic)[1]
        new == SubSeq(events', Len(events) + 1, Len(events'))
    IN  /\ Len(events') >= Len(events)
        /\ SubSeq(events', 1, Len(events)) = events
        /\ IF kind = <<"sensors">> /\ dev \in DOMAIN sensors
           THEN /\ sensors'[dev].status = StatusOf(tk.payload)
                /\ sensors'[dev].error_count =
                       sensors[dev].error_count + (IF Truthy(tk.payload.error) THEN 1 ELSE 0)
                /\ Len(new) = 1
                /\ new[1].type = "sensor_status"
                /\ new[1].msg = tk.msg
                /\ new[1].device = dev
           ELSE IF kind = <<"gateways">> /\ dev \in DOMAIN gateways
           THEN /\ gateways'[dev].status = StatusOf(tk.payload)
                /\ Len(new) = 1
                /\ new[1].type = "gateway_status"
                /\ new[1].msg = tk.msg
                /\ new[1].device = dev
           ELSE /\ sensors' = sensors
                /\ gateways' = gateways
                /\ new = <<>>

C31_StatusMessage == [][\A t \in 1..MaxMsgs : StatusHandled(t) => StatusEffect(t)]_vars

\* ---- C32
\* In the legacy manager a send of broadcast_to_subscribers for sensor s
\* starts only for a client id that has a connection and whose subscription
\* set holds s at that moment (so never for a client that did not subscribe
\* to s or that unsubscribed from it), and a subscribe frame for sensors the
\* client is already subscribed to changes no subscription.
SendStarts == Len(l_bc'.attempted) > Len(l_bc.attempted)

C38_SubscriptionsWithinConnections == DOMAIN l_subs \subseteq DOMAIN l_active

C38_BroadcastCompletes ==
    (l_bc.phase = "done" /\ l_bc.sensor = AllClients) =>
        \A client_id \in l_bc.start :
            client_id \in DOMAIN l_active => client_id \in Range(l_bc.attempted)

C38_LegacyConsistent == C38_SubscriptionsWithinConnections /\ C38_BroadcastCompletes

\* ---- C33
\* Every connection in a room set or in a user set is in active_connections
\* and in connection_info, and no user set is empty.
C33_IndexesWithinRegistry ==
    /\ \A r \in DOMAIN room_connections :
           room_connections[r] \subseteq (active_connections \cap DOMAIN connection_info)
    /\ \A u \in DOMAIN user_connections :
           /\ user_connections[u] \subseteq (active_connections \cap DOMAIN connection_info)
           /\ user_connections[u] # {}

\* ---- C34
\* messages_processed counts exactly the frames whose task ended normally and
\* messages_failed exactly the frames whose task ended in an except clause or
\* that got no task; a frame whose task has not ended is in neither.  Hence
\* processed + failed <= received at every moment, each frame is counted once
\* and in one counter when its processing ends, and the sum is received once
\* no task is left.
EndedAs(outcome) ==
    Cardinality({t \in DOMAIN mtasks : mtasks[t].pc = "done" /\ mtasks[t].outcome = outcome})

C34_EachFrameCountedOnce ==
    /\ \A t \in DOMAIN mtasks :
           IF mtasks[t].pc = "done"
           THEN mtasks[t].outcome \in {"processed", "failed"}
           ELSE mtasks[t].outcome = "none"
    /\ stats.messages_processed = EndedAs("processed")
    /\ stats.messages_failed =
           EndedAs("failed") + (stats.messages_received - Len(mtasks))
    /\ stats.messages_processed + stats.messages_failed <= stats.messages_received
    /\ InFlight = 0 =>
           stats.messages_processed + stats.messages_failed = stats.messages_received

\* two frames were received and both tasks have ended: the one of a reading
\* that went through the cache refresh as processed, the one of a payload that
\* is not JSON as failed
C34_Witness ==
    /\ stats.messages_received = 2
    /\ Len(mtasks) = 2
    /\ InFlight = 0
    /\ \E t, u \in DOMAIN mtasks :
          /\ mtasks[t].outcome = "processed"
          /\ mtasks[t].cache = 4
          /\ mtasks[u].outcome = "failed"
          /\ ~mtasks[u].payload.json
    /\ stats.messages_processed = 1
    /\ stats.messages_failed = 1

\* ---- C35
\* At most one _connect started by a reconnect (by a _reconnect task of
\* _on_disconnect or by the _reconnect that _message_loop awaits) is waiting
\* for the connection at any time.
ReconnectsInProgress == rtask.connecting + (IF mpc = "connecting" THEN 1 ELSE 0)

C35_OneReconnectAtATime == ReconnectsInProgress <= 1

\* ---- C36
\* For every data message: the point is written only after the device-state
\* commit, the cache refresh starts only after the commit and the attempt to
\* write the point, no alarm or sensor_data event of the reading exists
\* before its cache refresh has ended, its alarm events precede its one
\* sensor_data event, and a reading whose commit did not happen has no event.
CacheSteps == {"setex", "lpush", "ltrim", "expire"}

ReadingEvents(tk) ==
    {i \in DOMAIN events : events[i].msg = tk.msg
                           /\ events[i].type \in {"alarm", "sensor_data"}}

C36_FixedOrder ==
    \A t \in DOMAIN mtasks :
        LET tk == mtasks[t]
            ev == ReadingEvents(tk)
        IN  /\ tk.ts = 1 => tk.db = 1
            /\ (tk.pc \in CacheSteps \/ tk.cache > 0) =>
                   /\ tk.db = 1
                   /\ tk.ts = 1 \/ "ts" \in tk.failed
            /\ tk.pc \in CacheSteps => ev = {}
            /\ ev # {} => tk.db = 1 /\ tk.pc = "done" /\ tk.handler = "data"
            /\ tk.db = 0 => ev = {}
            /\ Cardinality({i \in ev : events[i].type = "sensor_data"}) <= 1
            /\ \A i, j \in ev :
                   (events[i].type = "alarm" /\ events[j].type = "sensor_data") => i < j

\* the reading 40 of d1 was committed, written and cached, and its two alarms
\* and its sensor_data event were fanned out
C36_Witness ==
    /\ Len(mtasks) >= 1
    /\ mtasks[1].pc = "done"
    /\ mtasks[1].db = 1
    /\ mtasks[1].ts = 1
    /\ mtasks[1].cache = 4
    /\ Len(events) = 3
    /\ events[1].type = "alarm"
    /\ events[2].type = "alarm"
    /\ events[3].type = "sensor_data"
    /\ \A i \in 1..3 : events[i].msg = 1

\* ---- C37
\* A connection whose accept has not succeeded is in no structure of the
\* registry, and a connection that is registered, or that a broadcast, a room
\* broadcast or a user delivery (the probe is a broadcast) sends to, has had
\* the send of its connection_established frame started before: the frame is
\* still being sent or its send has ended.
WelcomeStarted(c) == pc[c] # "idle"

InRegistry(c) ==
    \/ c \in active_connections
    \/ c \in DOMAIN connection_info
    \/ \E r \in DOMAIN room_connections : c \in room_connections[r]
    \/ \E u \in DOMAIN user_connections : c \in user_connections[u]

C37_WelcomeFirst ==
    /\ [](\A c \in Conns :
             (InRegistry(c) \/ c \in Range(fan.tasks) \/ c \in fan.scope)
                 => WelcomeStarted(c))
    /\ [][\A c \in Conns : AcceptFails(c) => ~InRegistry(c)']_vars
    /\ [][\A c \in Conns :
             (~InRegistry(c) /\ InRegistry(c)' /\ pc[c] = "idle") => pc'[c] = "welcome"]_vars

\* a broadcast sends to a connection whose connection_established frame is
\* still being sent
C37_Witness ==
    \E c \in Conns :
        /\ pc[c] = "welcome"
        /\ fan.phase = "sending"
        /\ fan.kind = "broadcast"
        /\ \E i \in DOMAIN fan.tasks : fan.tasks[i] = c /\ fan.res[i] = "pending"

\* ---- C39
\* The step in which start() gives up (its _connect timed out) leaves
\* is_running false, the network loop of the client stopped and no
\* _message_loop task; and from then on the client does not get connected.
StartFails == cpc = "waiting" /\ cpc' = "failed"

C39_FailedStartLeavesNothing ==
    /\ [][StartFails => (~is_running' /\ net' = "stopped" /\ mpc' = "none")]_vars
    /\ [][cpc = "failed" => (~is_connected' /\ net' = net)]_vars


====
